---------------------------- MODULE Spec2Model ----------------------------
(***************************************************************************)
(* A model of the telemetry harvesting and reporting engine of             *)
(* bcbio-nextgen-vm:                                                       *)
(*   - Collector (bcbiovm/provider/common/resources.py), specification     *)
(*     SpecCollector;                                                      *)
(*   - Parser (bcbiovm/provider/common/resources.py), specification        *)
(*     SpecParser;                                                         *)
(*   - the Azure Report (bcbiovm/provider/azure/resources.py) and AzureAPI *)
(*     (bcbiovm/provider/azure/common.py), specification SpecReport;       *)
(*   - BaseCloudProvider.run_script (bcbiovm/provider/base.py),            *)
(*     specification SpecProvider;                                         *)
(*   - AzureProvider.upload_biodata                                        *)
(*     (bcbiovm/provider/azure/azure_provider.py), specification           *)
(*     SpecBiodata;                                                        *)
(*   - DataDirectory, the datadir command                                  *)
(*     (bcbiovm/client/commands/provider/azure/prepare.py), specification  *)
(*     SpecDatadir;                                                        *)
(*   - Pack._remove_empty (bcbiovm/provider/base.py), specification        *)
(*     SpecPack;                                                           *)
(*   - Pack._map_directories and Pack._local_directories                   *)
(*     (bcbiovm/provider/base.py), specification SpecMapping.              *)
(* Every specification owns a group of variables and leaves the other      *)
(* groups at their idle values.                                            *)
(***************************************************************************)
EXTENDS Integers, Sequences, FiniteSets, TLC

VARIABLES
    \* ---- Collector: the world around it
    cluster,          \* self._cluster.get_all_nodes(): the node descriptors, in order
    remote,           \* host -> the telemetry files under COLLECTL_PATH on that host
    lustre,           \* what the shared-filesystem collaborators answer
    cache,            \* the local cache directory (self._output): basename -> file
    \* ---- Collector: the object
    c_nodes,          \* self._nodes
    c_private_keys,   \* self._private_keys
    \* ---- Collector: one call of run()
    c_pc,             \* position inside run()
    c_loop,           \* "nodes": the per-node loop, "lustre": the loop of _fetch_collectl_lustre
    c_todo,           \* the targets the current loop still has to visit
    c_files,          \* the stat lines the open session still has to process
    c_mgt,            \* the value _management_target returned
    c_exc,            \* the exception that is propagating out of run(), or None
    agent,            \* the keys held by the local key agent
    sessions,         \* the sessions this run created, in order
    c_checks,         \* the diff decisions this run took
    c_downloaded,     \* the basenames this run called download_file for
    runs,             \* one record per finished run
    changed,          \* the remote fleet changed since the last run ended
    \* ---- Parser: the world around it
    bcbio_timings,    \* graph.get_bcbio_timings(self._bcbio_log): timestamp -> step
    rawdir,           \* the cache directory (self._rawdir): file name -> content
    \* ---- Parser: one call of run()
    p_pc,             \* position inside run()
    p_time_frame,     \* time_frame
    p_listing,        \* the file names the loop still has to visit
    data_frames,      \* data_frames: host -> rows
    hardware_info,    \* hardware_info: host -> hardware facts
    p_decoded,        \* the calls of graph.load_collectl, in order
    p_exc,            \* the exception run() raised, or None
    \* ---- Report: the world around it
    cluster_config,   \* self._cluster_config
    \* ---- Report: the object and its calls
    information,      \* self._information: the sections of the document, in order
    r_log,            \* the records written to LOG, in order
    r_last,           \* the last call: its method, what the provider returned
    r_exc,            \* the exception the last call raised, or None
    \* ---- BaseCloudProvider.run_script: the world around it
    s_script,         \* script: the local path of the script
    s_home,           \* what `echo $HOME` prints on the frontend node
    \* ---- BaseCloudProvider.run_script: one call
    s_pc,             \* position inside run_script()
    s_client,         \* client: the connection to the frontend node
    s_results,        \* the calls of _execute_remote and what they returned, in order
    s_remote_file,    \* remote_file
    s_output_file,    \* ouput_file
    s_screen_name,    \* screen_name
    s_frontend,       \* what happened on the frontend node, in order
    s_exc,            \* the exception run_script() raised, or None
    \* ---- AzureProvider.upload_biodata: the world around it
    b_genome,         \* genome
    b_target,         \* target
    b_storage,        \* the blobs the storage manager holds
    b_disk,           \* the local files
    \* ---- AzureProvider.upload_biodata: one call
    b_pc,             \* position inside upload_biodata()
    b_archive,        \* archive: unbound until compress has returned
    b_file_info,      \* file_info
    b_exists,         \* what storage_manager.exists answered
    b_uploads,        \* the calls of storage_manager.upload, in order
    b_exc,            \* the exception that is on its way out, or None
    \* ---- DataDirectory (the datadir command): the world around it
    d_args,           \* self.args: force, datadir, path
    d_cwd,            \* the working directory of the process
    d_fs,             \* the directories that exist
    d_fs0,            \* the directories that existed when the command began
    \* ---- DataDirectory: one run of the command
    d_pc,             \* position: prologue, work, done or failed
    d_removed,        \* the directories shutil.rmtree was called on
    d_created,        \* the directories os.makedirs was called on
    d_exc,            \* the exception the command failed with, or None
    \* ---- Pack._remove_empty: one call, and a second call on its result
    k_pc,             \* position: call, returned or again
    k_argument,       \* argument
    k_output,         \* what _remove_empty(argument) returned
    k_again,          \* what _remove_empty returned for that result
    \* ---- Pack._map_directories: the world around it
    m_data,           \* what config_utils.get_dataarg(args) returns, and the Python
    m_files,          \* the file names remap.walk_files finds in args
    \* ---- Pack._map_directories: one call
    m_pc,             \* position inside _map_directories()
    m_work_dir,       \* work_dir
    m_biodata_dir,    \* biodata_dir
    m_directories,    \* directories
    m_todo,           \* what is left of sorted(directories)
    m_external_count, \* external_count
    m_output,         \* output
    m_exc             \* the exception the call ended with, or None

collectorVars == <<cluster, remote, lustre, cache, c_nodes, c_private_keys, c_pc,
                   c_loop, c_todo, c_files, c_mgt, c_exc, agent, sessions,
                   c_checks, c_downloaded, runs, changed>>

parserVars == <<bcbio_timings, rawdir, p_pc, p_time_frame, p_listing,
                data_frames, hardware_info, p_decoded, p_exc>>

reportVars == <<cluster_config, information, r_log, r_last, r_exc>>

providerVars == <<s_script, s_home, s_pc, s_client, s_results, s_remote_file,
                  s_output_file, s_screen_name, s_frontend, s_exc>>

biodataVars == <<b_genome, b_target, b_storage, b_disk, b_pc, b_archive, b_file_info, b_exists, b_uploads, b_exc>>

datadirVars == <<d_args, d_cwd, d_fs, d_fs0, d_pc, d_removed, d_created, d_exc>>

packVars == <<k_pc, k_argument, k_output, k_again>>

mappingVars == <<m_data, m_files, m_pc, m_work_dir, m_biodata_dir, m_directories, m_todo, m_external_count, m_output, m_exc>>

vars == <<collectorVars, parserVars, reportVars, providerVars, biodataVars, datadirVars, packVars, mappingVars>>

notCollector == <<parserVars, reportVars, providerVars, biodataVars, datadirVars, packVars, mappingVars>>
notParser == <<collectorVars, reportVars, providerVars, biodataVars, datadirVars, packVars, mappingVars>>
notReport == <<collectorVars, parserVars, providerVars, biodataVars, datadirVars, packVars, mappingVars>>
notProvider == <<collectorVars, parserVars, reportVars, biodataVars, datadirVars, packVars, mappingVars>>
notBiodata == <<collectorVars, parserVars, reportVars, providerVars, datadirVars, packVars, mappingVars>>
notDatadir == <<collectorVars, parserVars, reportVars, providerVars, biodataVars, packVars, mappingVars>>
notPack == <<collectorVars, parserVars, reportVars, providerVars, biodataVars, datadirVars, mappingVars>>
notMapping == <<collectorVars, parserVars, reportVars, providerVars, biodataVars, datadirVars, packVars>>

-----------------------------------------------------------------------------
(* Bounds of the model *)

MaxSize == 2      \* file sizes range over 1..MaxSize
MaxTime == 2      \* access and modification times range over 1..MaxTime
MaxRuns == 2      \* calls of Collector.run on one Collector object
MaxMark == 3      \* timestamps of checkpoints and telemetry rows range over 1..MaxMark
MaxGroups == 2    \* NetworkSecurityGroup elements in a response of the provider
MaxLog == 2       \* records in the log beyond which cloud_services is not called again
MaxDepth == 3     \* the deepest nesting of an argument of Pack._remove_empty
MaxFiles == 2     \* file names that remap.walk_files finds in the arguments

-----------------------------------------------------------------------------
(* Values shared by the components *)

None == "None"

Min(S) == CHOOSE x \in S : \A y \in S : x <= y
Max(S) == CHOOSE x \in S : \A y \in S : x >= y

Last(s) == s[Len(s)]

RECURSIVE SetToSeqs(_)
\* every ordering of a finite set: the iteration orders of a set or a dict
SetToSeqs(S) ==
    IF S = {} THEN {<<>>}
    ELSE UNION {{<<x>> \o t : t \in SetToSeqs(S \ {x})} : x \in S}

-----------------------------------------------------------------------------
(* Collector *)

COLLECTL_PATH == <<"var", "log", "collectl">>
NATDevice == "NATDevice"

AutoAddPolicy == "AutoAddPolicy"
RejectPolicy == "RejectPolicy"
DefaultPort == "22"

\* decimal notation: stat prints numbers, int() reads them back
RECURSIVE Decimal(_)
Decimal(n) == IF n < 10 THEN <<n>> ELSE Decimal(n \div 10) \o <<n % 10>>

RECURSIVE int(_)
int(digits) ==
    IF Len(digits) = 1 THEN digits[1]
    ELSE 10 * int(SubSeq(digits, 1, Len(digits) - 1)) + Last(digits)

\* attribute access on a namedtuple: AttributeError for a field it does not have
getattr(tuple, field) ==
    IF field \in DOMAIN tuple THEN [ok |-> TRUE, value |-> tuple[field]]
    ELSE [ok |-> FALSE, value |-> None]

\* os.path.basename
basename(path) == Last(path)

\* SSHClient.stat(path, format=("%s", "%X", "%Y", "%n")): one line per file,
\* its fields in the order of the format: size, access time, modification
\* time, name
SSHClient_stat(files) ==
    [i \in 1..Len(files) |->
        <<Decimal(files[i].size), Decimal(files[i].atime),
          Decimal(files[i].mtime), files[i].path>>]

\* Collector._collectl_files: the FileInfo of one stat line
Collector_collectl_files(file_info) ==
    LET access_time == int(file_info[1])
        modified_time == int(file_info[2])
        size == int(file_info[3])
    IN  [atime |-> access_time, mtine |-> modified_time, size |-> size,
         path |-> file_info[4]]

\* int(os.path.getmtime(path)): the fraction of a second is dropped
getmtime_int(file) == file.mtime.sec

\* Collector._is_different
Collector_is_different(file, remote_info) ==
    IF ~file.exists THEN TRUE
    ELSE IF getmtime_int(file) # remote_info.mtine THEN TRUE
    ELSE IF file.size # remote_info.size THEN TRUE
    ELSE FALSE

\* the utime argument of download_file as it would be were the field read by
\* the name the namedtuple gives it
Collector_utime_mtine(collectl) ==
    LET a == getattr(collectl, "atime")
        m == getattr(collectl, "mtine")
    IN  [ok |-> a.ok /\ m.ok, atime |-> a.value, mtime |-> m.value]

\* Collector._collect, line 142: utime=(collectl.atime, collectl.mtime)
Collector_utime(collectl) ==
    LET a == getattr(collectl, "atime")
        m == getattr(collectl, "mtime")
    IN  [ok |-> a.ok /\ m.ok, atime |-> a.value, mtime |-> m.value]

\* SSHClient.download_file(remote, local, utime): the content is copied and
\* the local access and modification times are set to utime
SSHClient_download_file(file, utime) ==
    [exists |-> TRUE, size |-> file.size,
     mtime |-> [sec |-> utime.mtime, frac |-> 0], atime |-> utime.atime]

\* Collector._get_ssh_client, lines 65-66
Collector_policy(bastion_host) ==
    IF bastion_host # None THEN AutoAddPolicy ELSE RejectPolicy

\* Collector._get_ssh_client: the client as set up before connect
Collector_get_ssh_client(host, user, port, bastion_host) ==
    [host |-> host, user |-> user, port |-> port,
     bastion_host |-> bastion_host, policy |-> Collector_policy(bastion_host)]

\* Collector._collect, line 135: self._get_ssh_client(host, user, bastion_host),
\* the third positional parameter of _get_ssh_client being port
Collector_collect_client(host, user, bastion_host) ==
    Collector_get_ssh_client(host, user, bastion_host, None)

\* Collector._management_target, line 121: self._get_ssh_client(ip, user)
Collector_management_client(host, user) ==
    Collector_get_ssh_client(host, user, DefaultPort, None)

\* the nodes with a preferred address, whatever their role
RECURSIVE SelectNodes(_)
SelectNodes(nodes) ==
    IF nodes = <<>> THEN <<>>
    ELSE (IF Head(nodes).preferred_ip # None THEN <<Head(nodes)>> ELSE <<>>)
         \o SelectNodes(Tail(nodes))

\* Collector.available_nodes
Collector_available_nodes(cached, nodes) ==
    IF cached = <<>> THEN SelectNodes(nodes) ELSE cached

\* the keys of the nodes that have a preferred address only
Collector_private_keys_available(cached, nodes) ==
    IF cached = {}
    THEN {nodes[i].user_key_private :
             i \in {j \in 1..Len(nodes) : nodes[j].preferred_ip # None}}
    ELSE cached

\* Collector.private_keys: self._cluster.nodes holds the nodes by cluster type
Collector_private_keys(cached, nodes) ==
    IF cached = {}
    THEN UNION {{nodes[i].user_key_private :
                    i \in {j \in 1..Len(nodes) : nodes[j].type = cluster_type}} :
                cluster_type \in {nodes[i].type : i \in 1..Len(nodes)}}
    ELSE cached

\* str.split(sep)[0]
RECURSIVE SplitFirst(_, _)
SplitFirst(s, sep) ==
    IF s = <<>> \/ Head(s) = sep THEN <<>>
    ELSE <<Head(s)>> \o SplitFirst(Tail(s), sep)

\* Collector._management_target, line 125
Collector_management_value(disk_info) ==
    IF disk_info = <<>> THEN [none |-> TRUE, value |-> <<>>]
    ELSE [none |-> FALSE, value |-> SplitFirst(disk_info[1], ":")]

\* ICELOps.stack_name: the stack of a management target, None when there is none
ICELOps_stack_name(management_target) ==
    IF ~management_target.none /\ management_target.value \in DOMAIN lustre.stacks
    THEN lustre.stacks[management_target.value] ELSE None

\* ICELOps.instances: instance name -> host
ICELOps_instances(stack_name) == lustre.instances

\* a loop over the instances that does not leave the NAT device out
Collector_lustre_targets_all(icel_hosts, order) ==
    [i \in 1..Len(order) |->
        [host |-> icel_hosts[order[i]], user |-> "ec2-user",
         bastion_host |-> icel_hosts[NATDevice]]]

\* Collector._fetch_collectl_lustre, lines 154-158: the targets of the loop
\* for one iteration order of the dict
Collector_lustre_targets(icel_hosts, order) ==
    LET names == SelectSeq(order, LAMBDA name : name # NATDevice)
    IN  [i \in 1..Len(names) |->
            [host |-> icel_hosts[names[i]], user |-> "ec2-user",
             bastion_host |-> icel_hosts[NATDevice]]]

\* Collector.run, lines 183-184: the targets of the per-node loop
Collector_node_targets(nodes) ==
    [i \in 1..Len(nodes) |->
        [host |-> nodes[i].preferred_ip, user |-> nodes[i].image_user,
         bastion_host |-> None]]

-----------------------------------------------------------------------------
(* Collector: the inputs of the model *)

Node(type, ip, key) ==
    [type |-> type, preferred_ip |-> ip, image_user |-> "ubuntu",
     user_key_private |-> key]

\* a frontend and two compute nodes; the node `without` has no address
Cluster(without) ==
    <<Node("frontend", IF without = 1 THEN None ELSE "n1", "k1"),
      Node("compute", IF without = 2 THEN None ELSE "n2", "k2"),
      Node("compute", IF without = 3 THEN None ELSE "n3", "k2")>>

Hosts == {"n1", "n2", "n3", "nat", "mds", "oss"}

RemoteFile(name, size, atime, mtime) ==
    [path |-> COLLECTL_PATH \o <<name>>, size |-> size, atime |-> atime,
     mtime |-> mtime]

LocalFile(size, sec, frac, atime) ==
    [exists |-> TRUE, size |-> size, mtime |-> [sec |-> sec, frac |-> frac],
     atime |-> atime]

Absent == [exists |-> FALSE]

Names == {"f1", "f3", "old"}

Sizes == 1..MaxSize
Times == 1..MaxTime

Device == <<"mgs", ":", "/", "scratch">>

\* no device found; a device the naming collaborator knows no stack for; a
\* device of the stack "icel"
LustreAnswers ==
    {[disk_info |-> a[1], stacks |-> [x \in {<<"mgs">>} |-> a[2]],
      instances |-> [n \in {NATDevice, "mds", "oss"} |->
                        CASE n = NATDevice -> "nat" [] n = "mds" -> "mds"
                          [] OTHER -> "oss"]] :
        a \in {<<<<>>, "icel">>, <<<<Device>>, None>>, <<<<Device>>, "icel">>}}

\* the variables of the Collector while no Collector exists
CollectorIdle ==
    /\ cluster = <<>>
    /\ remote = <<>>
    /\ lustre = <<>>
    /\ cache = <<>>
    /\ c_nodes = <<>>
    /\ c_private_keys = {}
    /\ c_pc = "off"
    /\ c_loop = "nodes"
    /\ c_todo = <<>>
    /\ c_files = <<>>
    /\ c_mgt = [none |-> TRUE, value |-> <<>>]
    /\ c_exc = None
    /\ agent = {}
    /\ sessions = <<>>
    /\ c_checks = {}
    /\ c_downloaded = {}
    /\ runs = <<>>
    /\ changed = FALSE

\* the variables of the Parser while no Parser exists
ParserIdle ==
    /\ bcbio_timings = <<>>
    /\ rawdir = <<>>
    /\ p_pc = "off"
    /\ p_time_frame = [start |-> 0, end |-> 0, steps |-> {}]
    /\ p_listing = <<>>
    /\ data_frames = <<>>
    /\ hardware_info = <<>>
    /\ p_decoded = <<>>
    /\ p_exc = None

\* the variables of the Report while no Report exists
ReportIdle ==
    /\ cluster_config = <<>>
    /\ information = <<>>
    /\ r_log = <<>>
    /\ r_last = [method |-> None]
    /\ r_exc = None

\* the variables of run_script while no provider exists
ProviderIdle ==
    /\ s_script = <<>>
    /\ s_home = <<>>
    /\ s_pc = "off"
    /\ s_client = [connected |-> FALSE, open |-> FALSE]
    /\ s_results = <<>>
    /\ s_remote_file = <<>>
    /\ s_output_file = <<>>
    /\ s_screen_name = <<>>
    /\ s_frontend = <<>>
    /\ s_exc = None

\* the variables of upload_biodata while no call is made
BiodataIdle ==
    /\ b_genome = None
    /\ b_target = None
    /\ b_storage = {}
    /\ b_disk = {}
    /\ b_pc = "off"
    /\ b_archive = [bound |-> FALSE, path |-> None]
    /\ b_file_info = [container |-> None, blob |-> <<>>]
    /\ b_exists = [asked |-> FALSE, answer |-> FALSE]
    /\ b_uploads = <<>>
    /\ b_exc = None

\* the variables of the datadir command while it is not run
DatadirIdle ==
    /\ d_args = [force |-> FALSE, datadir |-> None, path |-> None]
    /\ d_cwd = <<>>
    /\ d_fs = {}
    /\ d_fs0 = {}
    /\ d_pc = "off"
    /\ d_removed = <<>>
    /\ d_created = <<>>
    /\ d_exc = None

\* the variables of Pack._remove_empty while no call is made
PackIdle ==
    /\ k_pc = "off"
    /\ k_argument = [kind |-> "None", scalar |-> 0, items |-> <<>>,
                     entries |-> <<>>]
    /\ k_output = k_argument
    /\ k_again = k_argument

\* the variables of Pack._map_directories while no call is made
MappingIdle ==
    /\ m_data = None
    /\ m_files = {}
    /\ m_pc = "off"
    /\ m_work_dir = [none |-> TRUE, value |-> <<>>]
    /\ m_biodata_dir = [none |-> TRUE, value |-> <<>>]
    /\ m_directories = {}
    /\ m_todo = <<>>
    /\ m_external_count = 0
    /\ m_output = <<>>
    /\ m_exc = None

-----------------------------------------------------------------------------
(* Collector: the state machine of run() *)

CollectorInit ==
    /\ cluster \in {Cluster(w) : w \in 0..2}
    /\ \E f1 \in {<<>>} \cup {<<RemoteFile("f1", s, a, m)>> :
                                 s \in Sizes, a \in Times, m \in Times},
          f3 \in {<<>>, <<RemoteFile("f3", 1, 1, 1)>>} :
          remote = [h \in Hosts |->
                       CASE h = "n1" -> f1 [] h = "n3" -> f3 [] OTHER -> <<>>]
    /\ lustre \in LustreAnswers
    /\ \E l1 \in {Absent} \cup {LocalFile(s, m, f, 1) :
                                   s \in Sizes, m \in Times, f \in {0, 1}},
          l3 \in {Absent, LocalFile(1, 1, 0, 1)} :
          cache = [n \in Names |->
                      CASE n = "f1" -> l1 [] n = "f3" -> l3
                        [] OTHER -> LocalFile(1, 1, 0, 1)]
    /\ c_nodes = <<>>
    /\ c_private_keys = {}
    /\ c_pc = "idle"
    /\ c_loop = "nodes"
    /\ c_todo = <<>>
    /\ c_files = <<>>
    /\ c_mgt = [none |-> TRUE, value |-> <<>>]
    /\ c_exc = None
    /\ agent = {}
    /\ sessions = <<>>
    /\ c_checks = {}
    /\ c_downloaded = {}
    /\ runs = <<>>
    /\ changed = FALSE
    /\ ParserIdle
    /\ ReportIdle
    /\ ProviderIdle
    /\ BiodataIdle
    /\ DatadirIdle
    /\ PackIdle
    /\ MappingIdle

\* a run that starts from an emptied cache directory
Collector_run_enter_cleared ==
    /\ c_pc = "idle"
    /\ Len(runs) < MaxRuns
    /\ c_private_keys' = Collector_private_keys(c_private_keys, cluster)
    /\ agent' = c_private_keys'
    /\ c_nodes' = Collector_available_nodes(c_nodes, cluster)
    /\ c_todo' = Collector_node_targets(c_nodes')
    /\ c_loop' = "nodes"
    /\ c_pc' = "collect"
    /\ c_files' = <<>>
    /\ c_mgt' = [none |-> TRUE, value |-> <<>>]
    /\ c_exc' = None
    /\ sessions' = <<>>
    /\ c_checks' = {}
    /\ c_downloaded' = {}
    /\ cache' = [n \in DOMAIN cache |-> Absent]
    /\ UNCHANGED <<cluster, remote, lustre, runs, changed>>
    /\ UNCHANGED notCollector

\* run(), line 182 and the head of line 183: the keys enter the agent and the
\* per-node loop gets its nodes
Collector_run_enter ==
    /\ c_pc = "idle"
    /\ Len(runs) < MaxRuns
    /\ c_private_keys' = Collector_private_keys(c_private_keys, cluster)
    /\ agent' = c_private_keys'
    /\ c_nodes' = Collector_available_nodes(c_nodes, cluster)
    /\ c_todo' = Collector_node_targets(c_nodes')
    /\ c_loop' = "nodes"
    /\ c_pc' = "collect"
    /\ c_files' = <<>>
    /\ c_mgt' = [none |-> TRUE, value |-> <<>>]
    /\ c_exc' = None
    /\ sessions' = <<>>
    /\ c_checks' = {}
    /\ c_downloaded' = {}
    /\ UNCHANGED <<cluster, remote, lustre, cache, runs, changed>>
    /\ UNCHANGED notCollector

\* a _collect that tries the same target again when connect fails
Collector_collect_open_retry ==
    /\ c_pc = "collect"
    /\ c_todo # <<>>
    /\ LET target == Head(c_todo)
           client == Collector_collect_client(target.host, target.user,
                                              target.bastion_host)
           session == [client |-> client, loop |-> c_loop, open |-> FALSE,
                       connected |-> FALSE, agent |-> agent,
                       wanted_bastion |-> target.bastion_host]
       IN  \E connected \in BOOLEAN :
             /\ sessions' = Append(sessions,
                           [session EXCEPT !.open = connected,
                                           !.connected = connected])
             /\ IF connected
                THEN /\ c_files' = SSHClient_stat(remote[target.host])
                     /\ c_pc' = "files"
                     /\ c_exc' = None
                ELSE /\ c_files' = <<>>
                     /\ c_pc' = "collect"
                     /\ c_exc' = None
    /\ UNCHANGED <<cluster, remote, lustre, cache, c_nodes, c_private_keys,
                   c_loop, c_todo, c_mgt, agent, c_checks, c_downloaded, runs,
                   changed>>
    /\ UNCHANGED notCollector

\* _collect, lines 135-136: the session of the next target is set up and
\* connected, and stat lists the remote files; connect may fail
Collector_collect_open ==
    /\ c_pc = "collect"
    /\ c_todo # <<>>
    /\ LET target == Head(c_todo)
           client == Collector_collect_client(target.host, target.user,
                                              target.bastion_host)
           session == [client |-> client, loop |-> c_loop, open |-> FALSE,
                       connected |-> FALSE, agent |-> agent,
                       wanted_bastion |-> target.bastion_host]
       IN  \E connected \in BOOLEAN :
             /\ sessions' = Append(sessions,
                           [session EXCEPT !.open = connected,
                                           !.connected = connected])
             /\ IF connected
                THEN /\ c_files' = SSHClient_stat(remote[target.host])
                     /\ c_pc' = "files"
                     /\ c_exc' = None
                ELSE /\ c_files' = <<>>
                     /\ c_pc' = "raising"
                     /\ c_exc' = "ConnectivityError"
    /\ UNCHANGED <<cluster, remote, lustre, cache, c_nodes, c_private_keys,
                   c_loop, c_todo, c_mgt, agent, c_checks, c_downloaded, runs,
                   changed>>
    /\ UNCHANGED notCollector

\* _collect, lines 136-142: one remote file is compared with the cache and
\* downloaded when it differs
Collector_collect_file ==
    /\ c_pc = "files"
    /\ c_files # <<>>
    /\ LET collectl == Collector_collectl_files(Head(c_files))
           destination == basename(collectl.path)
           different == Collector_is_different(cache[destination], collectl)
           utime == Collector_utime(collectl)
           source == CHOOSE f \in {remote[Head(c_todo).host][i] :
                                      i \in 1..Len(remote[Head(c_todo).host])} :
                        f.path = collectl.path
       IN  /\ c_checks' = c_checks \cup
                  {[name |-> destination, remote |-> source,
                    local |-> cache[destination], download |-> different]}
           /\ IF ~different
              THEN /\ c_files' = Tail(c_files)
                   /\ UNCHANGED <<cache, c_downloaded, c_pc, c_exc>>
              ELSE IF ~utime.ok
              THEN /\ c_pc' = "raising"
                   /\ c_exc' = "AttributeError"
                   /\ UNCHANGED <<cache, c_downloaded, c_files>>
              ELSE /\ cache' = [cache EXCEPT ![destination] =
                                   SSHClient_download_file(source, utime)]
                   /\ c_downloaded' = c_downloaded \cup {destination}
                   /\ c_files' = Tail(c_files)
                   /\ UNCHANGED <<c_pc, c_exc>>
    /\ UNCHANGED <<cluster, remote, lustre, c_nodes, c_private_keys, c_loop,
                   c_todo, c_mgt, agent, sessions, runs, changed>>
    /\ UNCHANGED notCollector

\* a _collect that returns without closing its session
Collector_collect_close_leaking ==
    /\ c_pc = "files"
    /\ c_files = <<>>
    /\ c_todo' = Tail(c_todo)
    /\ c_pc' = "collect"
    /\ UNCHANGED <<cluster, remote, lustre, cache, c_nodes, c_private_keys,
                   c_loop, c_files, c_mgt, c_exc, agent, sessions, c_checks,
                   c_downloaded, runs, changed>>
    /\ UNCHANGED notCollector

\* _collect, line 143: the session is closed and the loop goes on
Collector_collect_close ==
    /\ c_pc = "files"
    /\ c_files = <<>>
    /\ sessions' = [sessions EXCEPT ![Len(sessions)].open = FALSE]
    /\ c_todo' = Tail(c_todo)
    /\ c_pc' = "collect"
    /\ UNCHANGED <<cluster, remote, lustre, cache, c_nodes, c_private_keys,
                   c_loop, c_files, c_mgt, c_exc, agent, c_checks,
                   c_downloaded, runs, changed>>
    /\ UNCHANGED notCollector

\* _fetch_collectl_lustre, line 147, and _management_target, lines 117-121:
\* after the per-node loop the first node of the cluster is connected to
Collector_management_target_open ==
    /\ c_pc = "collect"
    /\ c_loop = "nodes"
    /\ c_todo = <<>>
    /\ LET node == cluster[1]
           client == Collector_management_client(node.preferred_ip,
                                                 node.image_user)
           session == [client |-> client, loop |-> "management",
                       open |-> FALSE, connected |-> FALSE, agent |-> agent,
                       wanted_bastion |-> None]
       IN  IF node.preferred_ip = None
           THEN /\ c_mgt' = [none |-> TRUE, value |-> <<>>]
                /\ c_pc' = "resolve"
                /\ UNCHANGED <<sessions, c_exc>>
           ELSE \E connected \in BOOLEAN :
                  /\ sessions' = Append(sessions,
                           [session EXCEPT !.open = connected,
                                           !.connected = connected])
                  /\ c_mgt' = [none |-> TRUE, value |-> <<>>]
                  /\ c_pc' = IF connected THEN "management" ELSE "raising"
                  /\ c_exc' = IF connected THEN None ELSE "ConnectivityError"
    /\ UNCHANGED <<cluster, remote, lustre, cache, c_nodes, c_private_keys,
                   c_loop, c_todo, c_files, agent, c_checks, c_downloaded,
                   runs, changed>>
    /\ UNCHANGED notCollector

\* _management_target, lines 122-125: the backing device is queried and the
\* session closed
Collector_management_target ==
    /\ c_pc = "management"
    /\ sessions' = [sessions EXCEPT ![Len(sessions)].open = FALSE]
    /\ c_mgt' = Collector_management_value(lustre.disk_info)
    /\ c_pc' = "resolve"
    /\ UNCHANGED <<cluster, remote, lustre, cache, c_nodes, c_private_keys,
                   c_loop, c_todo, c_files, c_exc, agent, c_checks,
                   c_downloaded, runs, changed>>
    /\ UNCHANGED notCollector

\* a pass that goes on to the instances whether a stack was resolved or not
Collector_fetch_collectl_lustre_unchecked ==
    /\ c_pc = "resolve"
    /\ LET stack_name == ICELOps_stack_name(c_mgt)
           icel_hosts == ICELOps_instances(stack_name)
       IN  \E order \in SetToSeqs(DOMAIN icel_hosts) :
             /\ c_todo' = Collector_lustre_targets(icel_hosts, order)
             /\ c_loop' = "lustre"
             /\ c_pc' = "collect"
    /\ UNCHANGED <<cluster, remote, lustre, cache, c_nodes, c_private_keys,
                   c_files, c_mgt, c_exc, agent, sessions, c_checks,
                   c_downloaded, runs, changed>>
    /\ UNCHANGED notCollector

\* _fetch_collectl_lustre, lines 148-154: the stack is resolved; without one
\* the pass returns, with one its instances become the targets of the loop
Collector_fetch_collectl_lustre ==
    /\ c_pc = "resolve"
    /\ LET stack_name == ICELOps_stack_name(c_mgt)
           icel_hosts == ICELOps_instances(stack_name)
       IN  IF stack_name = None
           THEN /\ c_pc' = "exiting"
                /\ UNCHANGED <<c_todo, c_loop>>
           ELSE \E order \in SetToSeqs(DOMAIN icel_hosts) :
                  /\ c_todo' = Collector_lustre_targets(icel_hosts, order)
                  /\ c_loop' = "lustre"
                  /\ c_pc' = "collect"
    /\ UNCHANGED <<cluster, remote, lustre, cache, c_nodes, c_private_keys,
                   c_files, c_mgt, c_exc, agent, sessions, c_checks,
                   c_downloaded, runs, changed>>
    /\ UNCHANGED notCollector

\* _fetch_collectl_lustre returns after its loop
Collector_lustre_done ==
    /\ c_pc = "collect"
    /\ c_loop = "lustre"
    /\ c_todo = <<>>
    /\ c_pc' = "exiting"
    /\ UNCHANGED <<cluster, remote, lustre, cache, c_nodes, c_private_keys,
                   c_loop, c_todo, c_files, c_mgt, c_exc, agent, sessions,
                   c_checks, c_downloaded, runs, changed>>
    /\ UNCHANGED notCollector

\* run(), line 182: the with block is left, by return or by an exception, and
\* SSHAgent gives the keys back
Collector_run_exit ==
    /\ c_pc \in {"exiting", "raising"}
    /\ agent' = {}
    /\ runs' = Append(runs, [completed |-> c_pc = "exiting",
                             downloads |-> Cardinality(c_downloaded),
                             changed |-> changed])
    /\ changed' = FALSE
    /\ c_pc' = "idle"
    /\ UNCHANGED <<cluster, remote, lustre, cache, c_nodes, c_private_keys,
                   c_loop, c_todo, c_files, c_mgt, c_exc, sessions, c_checks,
                   c_downloaded>>
    /\ UNCHANGED notCollector

\* the monitoring daemon of node n1 writes between two runs: its telemetry
\* file appears, or grows and gets a later modification time
Fleet_change ==
    /\ c_pc = "idle"
    /\ runs # <<>>
    /\ Len(runs) < MaxRuns
    /\ ~changed
    /\ LET old == IF remote["n1"] = <<>> THEN RemoteFile("f1", 0, 0, 0)
                   ELSE remote["n1"][1]
       IN  /\ old.mtime < MaxTime
           /\ remote' = [remote EXCEPT !["n1"] =
                  <<RemoteFile("f1", Min({old.size + 1, MaxSize}),
                               old.mtime + 1, old.mtime + 1)>>]
    /\ changed' = TRUE
    /\ UNCHANGED <<cluster, lustre, cache, c_nodes, c_private_keys, c_pc,
                   c_loop, c_todo, c_files, c_mgt, c_exc, agent, sessions,
                   c_checks, c_downloaded, runs>>
    /\ UNCHANGED notCollector

CollectorNext ==
    \/ Collector_run_enter
    \/ Collector_collect_open
    \/ Collector_collect_file
    \/ Collector_collect_close
    \/ Collector_management_target_open
    \/ Collector_management_target
    \/ Collector_fetch_collectl_lustre
    \/ Collector_lustre_done
    \/ Collector_run_exit
    \/ Fleet_change

SpecCollector == CollectorInit /\ [][CollectorNext]_vars

-----------------------------------------------------------------------------
(* Parser *)

\* file names are sequences of characters
COLLECTL_SUFFIX == <<".", "r", "a", "w", ".", "g", "z">>

DateDigits == 8
TimeDigits == 6

Digit == {"0", "1", "2", "3", "4", "5", "6", "7", "8", "9"}

\* the code points of the characters that occur in the file names
Ord(c) ==
    CASE c = "-" -> 45 [] c = "." -> 46 [] c = "/" -> 47
      [] c = "0" -> 48 [] c = "1" -> 49 [] c = "2" -> 50 [] c = "3" -> 51
      [] c = "4" -> 52 [] c = "5" -> 53 [] c = "6" -> 54 [] c = "7" -> 55
      [] c = "8" -> 56 [] c = "9" -> 57
      [] c = "a" -> 97 [] c = "g" -> 103 [] c = "r" -> 114 [] c = "t" -> 116
      [] c = "w" -> 119 [] c = "x" -> 120 [] c = "z" -> 122

\* the order of Python strings
RECURSIVE str_less(_, _)
str_less(a, b) ==
    IF b = <<>> THEN FALSE
    ELSE IF a = <<>> THEN TRUE
    ELSE IF Head(a) # Head(b) THEN Ord(Head(a)) < Ord(Head(b))
    ELSE str_less(Tail(a), Tail(b))

\* sorted(os.listdir(self._rawdir))
RECURSIVE sorted(_)
sorted(S) ==
    IF S = {} THEN <<>>
    ELSE LET least == CHOOSE x \in S : \A y \in S \ {x} : str_less(x, y)
         IN  <<least>> \o sorted(S \ {least})

\* str.endswith
endswith(name, suffix) ==
    /\ Len(name) >= Len(suffix)
    /\ SubSeq(name, Len(name) - Len(suffix) + 1, Len(name)) = suffix

\* whether the text is -\d{8}-\d{6}\.raw\.gz
IsCaptureSuffix(text) ==
    /\ Len(text) = 1 + DateDigits + 1 + TimeDigits + Len(COLLECTL_SUFFIX)
    /\ text[1] = "-"
    /\ \A i \in 2..(1 + DateDigits) : text[i] \in Digit
    /\ text[2 + DateDigits] = "-"
    /\ \A i \in (3 + DateDigits)..(2 + DateDigits + TimeDigits) : text[i] \in Digit
    /\ SubSeq(text, 3 + DateDigits + TimeDigits, Len(text)) = COLLECTL_SUFFIX

\* a host key that keeps the capture timestamp: only the extension is removed
Parser_host_extension(collectl_file) ==
    IF endswith(collectl_file, COLLECTL_SUFFIX)
    THEN SubSeq(collectl_file, 1, Len(collectl_file) - Len(COLLECTL_SUFFIX))
    ELSE collectl_file

\* Parser.run, line 243: re.sub(r'-\d{8}-\d{6}\.raw\.gz$', '', collectl_file).
\* The pattern has one length and is anchored at the end: it matches the last
\* characters of the name or nothing.
Parser_host(collectl_file) ==
    LET width == 1 + DateDigits + 1 + TimeDigits + Len(COLLECTL_SUFFIX)
        n == Len(collectl_file)
    IN  IF n >= width /\ IsCaptureSuffix(SubSeq(collectl_file, n - width + 1, n))
        THEN SubSeq(collectl_file, 1, n - width)
        ELSE collectl_file

\* a time frame that ends where it starts
Parser_time_frame_start(timings) ==
    LET steps == DOMAIN timings
    IN  [start |-> Min(steps), end |-> Min(steps), steps |-> steps]

\* Parser._time_frame, lines 214-216; the timestamps are the keys of the timings
Parser_time_frame(timings) ==
    LET steps == DOMAIN timings
    IN  [start |-> Min(steps), end |-> Max(steps), steps |-> steps]

\* graph.load_collectl(path, start, end): the rows of the file whose time is
\* in [start, end], and the hardware facts of the file
graph_load_collectl(content, start, end) ==
    [data |-> SelectSeq(content.rows, LAMBDA row : start <= row.t /\ row.t <= end),
     hardware |-> content.hardware]

\* Parser.run, line 248: pandas.concat([data_frames[host], data])
Parser_concat(frame, data) == frame \o data

\* dict[key] = value
SetItem(dict, key, value) ==
    [k \in DOMAIN dict \cup {key} |-> IF k = key THEN value ELSE dict[k]]

\* hardware facts that stay those of the first decode of a host
Parser_hardware_first(info, host, hardware) ==
    IF host \in DOMAIN info THEN info ELSE SetItem(info, host, hardware)

\* hardware facts that are stored only for a host that has some already
Parser_hardware_known(info, host, hardware) ==
    IF host \in DOMAIN info THEN SetItem(info, host, hardware) ELSE info

\* Parser.run, line 244: hardware_info[host] = hardware
Parser_hardware(info, host, hardware) == SetItem(info, host, hardware)

\* a scan that takes every file of the directory
Parser_is_telemetry_any(collectl_file) == Len(collectl_file) > 0

\* Parser.run, line 233: collectl_file.endswith(self.COLLECTL_SUFFIX)
Parser_is_telemetry(collectl_file) == endswith(collectl_file, COLLECTL_SUFFIX)

\* a test for no data that no decode passes
Parser_no_data_never(data) == Len(data) < 0

\* Parser.run, line 240: len(data) == 0
Parser_no_data(data) == Len(data) = 0

-----------------------------------------------------------------------------
(* Parser: the inputs of the model *)

\* <hostname>-<YYYYMMDD>-<HHMMSS>.raw.gz
TelemetryName(host, date, time) ==
    host \o <<"-">> \o date \o <<"-">> \o time \o COLLECTL_SUFFIX

HostNames == {<<"w", "1">>, <<"w", "2">>}
Dates == {<<"2", "0", "2", "3", "0", "1", "0", "1">>,
          <<"2", "0", "2", "3", "0", "1", "0", "2">>}
Midnight == <<"0", "0", "0", "0", "0", "0">>

\* the names a cache directory may hold: two captures of w1, one of w2, a
\* text file, and a telemetry file without capture timestamp
Web1Day1 == TelemetryName(<<"w", "1">>, <<"2", "0", "2", "3", "0", "1", "0", "1">>, Midnight)
Web1Day2 == TelemetryName(<<"w", "1">>, <<"2", "0", "2", "3", "0", "1", "0", "2">>, Midnight)
Web2Day1 == TelemetryName(<<"w", "2">>, <<"2", "0", "2", "3", "0", "1", "0", "1">>, Midnight)
TextFile == <<"w", "1", "-", "2", "0", "2", "3", "0", "1", "0", "1", "-",
              "0", "0", "0", "0", "0", "0", ".", "t", "x", "t">>
Undated == <<"w", "1">> \o COLLECTL_SUFFIX

\* the content of a file: rows, each with its time and the file it is from
Rows(name, times) ==
    [corrupt |-> FALSE, hardware |-> name,
     rows |-> [i \in 1..Len(times) |-> [t |-> times[i], file |-> name]]]

Corrupt(name) == [corrupt |-> TRUE, hardware |-> name, rows |-> <<>>]

CandidateFiles == <<Web1Day1, Web1Day2, Web2Day1, TextFile, Undated>>

\* a capture of the whole range of time, a capture of its last moment only, a
\* corrupt file
Content(name, kind) ==
    CASE kind = "all" -> Rows(name, [i \in 1..MaxMark |-> i])
      [] kind = "last" -> Rows(name, <<MaxMark>>)
      [] OTHER -> Corrupt(name)

\* the directories the model starts from: every candidate is absent or has one
\* of the contents; the text file and the undated file are never corrupt
Directories ==
    {[n \in {CandidateFiles[i] : i \in {j \in DOMAIN kinds : kinds[j] # "absent"}} |->
         Content(n, kinds[CHOOSE i \in DOMAIN kinds : CandidateFiles[i] = n])] :
     kinds \in {k \in [DOMAIN CandidateFiles -> {"absent", "all", "last", "corrupt"}] :
                  \A i \in DOMAIN k :
                      CandidateFiles[i] \in {TextFile, Undated} => k[i] # "corrupt"}}

-----------------------------------------------------------------------------
(* Parser: the state machine of run() *)

ParserInit ==
    /\ \E marks \in SUBSET (1..MaxMark) : bcbio_timings = [m \in marks |-> "step"]
    /\ rawdir \in Directories
    /\ p_pc = "idle"
    /\ p_time_frame = [start |-> 0, end |-> 0, steps |-> {}]
    /\ p_listing = <<>>
    /\ data_frames = <<>>
    /\ hardware_info = <<>>
    /\ p_decoded = <<>>
    /\ p_exc = None
    /\ CollectorIdle
    /\ ReportIdle
    /\ ProviderIdle
    /\ BiodataIdle
    /\ DatadirIdle
    /\ PackIdle
    /\ MappingIdle

\* run(), lines 228-232: the time frame is taken from the timings (min and max
\* of no timestamp at all raise ValueError) and the directory is listed
Parser_run_begin ==
    /\ p_pc = "idle"
    /\ IF DOMAIN bcbio_timings = {}
       THEN /\ p_pc' = "raised"
            /\ p_exc' = "ValueError"
            /\ UNCHANGED <<p_time_frame, p_listing>>
       ELSE /\ p_time_frame' = Parser_time_frame(bcbio_timings)
            /\ p_listing' = sorted(DOMAIN rawdir)
            /\ p_pc' = "scan"
            /\ UNCHANGED p_exc
    /\ UNCHANGED <<bcbio_timings, rawdir, data_frames, hardware_info, p_decoded>>
    /\ UNCHANGED notParser

\* run(), lines 232-248: one file of the listing
Parser_run_file ==
    /\ p_pc = "scan"
    /\ p_listing # <<>>
    /\ LET collectl_file == Head(p_listing)
           loaded == graph_load_collectl(rawdir[collectl_file],
                                         p_time_frame.start, p_time_frame.end)
           data == loaded.data
           hardware == loaded.hardware
           host == Parser_host(collectl_file)
           call == [file |-> collectl_file, start |-> p_time_frame.start,
                    end |-> p_time_frame.end]
       IN  IF ~Parser_is_telemetry(collectl_file)
           THEN /\ p_listing' = Tail(p_listing)
                /\ UNCHANGED <<data_frames, hardware_info, p_decoded, p_pc, p_exc>>
           ELSE IF rawdir[collectl_file].corrupt
           THEN /\ p_decoded' = Append(p_decoded, call)
                /\ p_pc' = "raised"
                /\ p_exc' = "DecodeError"
                /\ UNCHANGED <<data_frames, hardware_info, p_listing>>
           ELSE IF Parser_no_data(data)
           THEN /\ p_decoded' = Append(p_decoded, call)
                /\ p_listing' = Tail(p_listing)
                /\ UNCHANGED <<data_frames, hardware_info, p_pc, p_exc>>
           ELSE /\ p_decoded' = Append(p_decoded, call)
                /\ hardware_info' = Parser_hardware(hardware_info, host, hardware)
                /\ data_frames' =
                      IF host \notin DOMAIN data_frames
                      THEN SetItem(data_frames, host, data)
                      ELSE SetItem(data_frames, host,
                                   Parser_concat(data_frames[host], data))
                /\ p_listing' = Tail(p_listing)
                /\ UNCHANGED <<p_pc, p_exc>>
    /\ UNCHANGED <<bcbio_timings, rawdir, p_time_frame>>
    /\ UNCHANGED notParser

\* run(), line 250
Parser_run_return ==
    /\ p_pc = "scan"
    /\ p_listing = <<>>
    /\ p_pc' = "done"
    /\ UNCHANGED <<bcbio_timings, rawdir, p_time_frame, p_listing, data_frames,
                   hardware_info, p_decoded, p_exc>>
    /\ UNCHANGED notParser

ParserNext ==
    \/ Parser_run_begin
    \/ Parser_run_file
    \/ Parser_run_return

SpecParser == ParserInit /\ [][ParserNext]_vars

-----------------------------------------------------------------------------
(* Report and AzureAPI *)

HTTP_OK == 200

\* AzureAPI.security_groups: the names of the NetworkSecurityGroup elements of
\* the response that have a Name; a status other than 200 and a body that is
\* no XML are logged and give the empty set
AzureAPI_security_groups(response) ==
    IF response.status_code = HTTP_OK
    THEN IF response.parses
         THEN [output |-> {response.groups[i] : i \in
                              {j \in 1..Len(response.groups) :
                                  response.groups[j] # None}},
               log |-> <<>>]
         ELSE [output |-> {}, log |-> <<[level |-> "exception", event |-> "ParseError"]>>]
    ELSE [output |-> {},
          log |-> <<[level |-> "error", event |-> "Failed to get security groups !"]>>]

\* cloud_services that keeps the names read before the body turned out not to
\* be XML
AzureAPI_cloud_services_partial(response) ==
    IF response.status_code = HTTP_OK
    THEN [output |-> {response.groups[i] : i \in
                         {j \in 1..Len(response.groups) :
                             response.groups[j] # None}},
          log |-> IF response.parses THEN <<>>
                  ELSE <<[level |-> "exception", event |-> "ParseError"]>>]
    ELSE [output |-> {},
          log |-> <<[level |-> "error", event |-> "Failed to get cloud services!"]>>]

\* AzureAPI.cloud_services: the names of the HostedService elements of the
\* response that have a ServiceName; ElementTree.fromstring reads the whole
\* body before the first element is looked at
AzureAPI_cloud_services(response) ==
    IF response.status_code = HTTP_OK
    THEN IF response.parses
         THEN [output |-> {response.groups[i] : i \in
                              {j \in 1..Len(response.groups) :
                                  response.groups[j] # None}},
               log |-> <<>>]
         ELSE [output |-> {}, log |-> <<[level |-> "exception", event |-> "ParseError"]>>]
    ELSE [output |-> {},
          log |-> <<[level |-> "error", event |-> "Failed to get cloud services!"]>>]

\* objects.Report.add_section: one more section, the last of the document
Report_add_section(document, name, title, fields) ==
    Append(document, [name |-> name, title |-> title, fields |-> fields,
                      items |-> <<>>, calls |-> <<"add_section">>])

\* Container.add_field on the last section
Section_add_field(document, name, label) ==
    [document EXCEPT ![Len(document)] =
        [@ EXCEPT !.fields = Append(@, [name |-> name, label |-> label]),
                  !.calls = Append(@, "add_field")]]

\* Container.add_item on the last section
Section_add_item(document, item) ==
    [document EXCEPT ![Len(document)] =
        [@ EXCEPT !.items = Append(@, item), !.calls = Append(@, "add_item")]]

\* Container.add_items on the last section: an item for each element, in the
\* order the collection is iterated in
RECURSIVE Section_add_items(_, _)
Section_add_items(document, items) ==
    IF items = <<>> THEN document
    ELSE Section_add_items(Section_add_item(document, Head(items)), Tail(items))

SectionNames(document) == {document[i].name : i \in 1..Len(document)}

\* add_security_groups_info that looks at the provider's answer first
Report_add_security_groups_info_early(document, expected_sg_name, security_groups, order) ==
    IF security_groups = {}
    THEN [document |-> document,
          log |-> <<[level |-> "warning", event |-> "No security groups defined."]>>]
    ELSE [document |->
              Section_add_items(
                  Section_add_field(
                      Report_add_section(document, "sg", "Security groups", <<>>),
                      "sg", "Security Group"),
                  order),
          log |-> <<>>]

\* add_security_groups_info that adds the items only when the expected
\* security group is among them
Report_add_security_groups_info_strict(document, expected_sg_name, security_groups, order) ==
    LET sg_section ==
            Section_add_field(
                Report_add_section(document, "sg", "Security groups", <<>>),
                "sg", "Security Group")
    IN  IF security_groups = {}
        THEN [document |-> sg_section,
              log |-> <<[level |-> "warning",
                         event |-> "No security groups defined."]>>]
        ELSE IF expected_sg_name \in security_groups
        THEN [document |-> Section_add_items(sg_section, order),
              log |-> <<[level |-> "info",
                         event |-> "Expected security group exists."]>>]
        ELSE [document |-> sg_section,
              log |-> <<[level |-> "warning",
                         event |-> "Security group does not exist."]>>]

\* Report.add_security_groups_info, lines 39-58, for the set the provider
\* returned and the order that set is iterated in
Report_add_security_groups_info(document, expected_sg_name, security_groups, order) ==
    LET sg_section ==
            Section_add_field(
                Report_add_section(document, "sg", "Security groups", <<>>),
                "sg", "Security Group")
    IN  IF security_groups = {}
        THEN [document |-> sg_section,
              log |-> <<[level |-> "warning",
                         event |-> "No security groups defined."]>>]
        ELSE [document |-> Section_add_items(sg_section, order),
              log |-> <<IF expected_sg_name \in security_groups
                        THEN [level |-> "info",
                              event |-> "Expected security group exists."]
                        ELSE [level |-> "warning",
                              event |-> "Security group does not exist."]>>]

-----------------------------------------------------------------------------
(* Report: the inputs of the model *)

GroupNames == {"a", "b"}

RECURSIVE SeqsUpTo(_, _)
\* the sequences over S of length n at most
SeqsUpTo(S, n) ==
    IF n = 0 THEN {<<>>}
    ELSE SeqsUpTo(S, n - 1) \cup
         {Append(q, x) : q \in {r \in SeqsUpTo(S, n - 1) : Len(r) = n - 1}, x \in S}

\* the responses of the provider: a status, a body that is XML or not, and
\* the names of its NetworkSecurityGroup or HostedService elements (None: an
\* element without name)
Responses ==
    {[status_code |-> c, parses |-> x, groups |-> g] :
        c \in {HTTP_OK, HTTP_OK + 1}, x \in BOOLEAN,
        g \in SeqsUpTo(GroupNames \cup {None}, MaxGroups)}

-----------------------------------------------------------------------------
(* Report: the state machine *)

ReportInit ==
    /\ cluster_config \in {[security_group |-> e] : e \in {"a", "c", None}}
    /\ information = <<>>
    /\ r_log = <<>>
    /\ r_last = [method |-> None]
    /\ r_exc = None
    /\ CollectorIdle
    /\ ParserIdle
    /\ ProviderIdle
    /\ BiodataIdle
    /\ DatadirIdle
    /\ PackIdle
    /\ MappingIdle

\* Report.add_security_groups_info. A section name that is in the document
\* already is a programming error, raised by add_section before anything else
\* is done.
Report_security_groups ==
    /\ \E response \in Responses :
         LET api == AzureAPI_security_groups(response)
         IN  \E order \in SetToSeqs(api.output) :
               LET done == Report_add_security_groups_info(
                               information, cluster_config.security_group,
                               api.output, order)
               IN  IF "sg" \in SectionNames(information)
                   THEN /\ r_exc' = "ProgrammingError"
                        /\ r_last' = [method |-> "add_security_groups_info",
                                      fresh |-> FALSE, groups |-> {},
                                      response |-> None, api_log |-> <<>>]
                        /\ UNCHANGED <<information, r_log>>
                   ELSE /\ information' = done.document
                        /\ r_log' = r_log \o api.log \o done.log
                        /\ r_exc' = None
                        /\ r_last' = [method |-> "add_security_groups_info",
                                      fresh |-> TRUE, groups |-> api.output,
                                      response |-> response,
                                      api_log |-> api.log]
    /\ UNCHANGED cluster_config
    /\ UNCHANGED notReport

\* Report.add_instance_info, lines 62-70
Report_add_instance_info ==
    /\ IF "instance" \in SectionNames(information)
       THEN /\ r_exc' = "ProgrammingError"
            /\ UNCHANGED information
       ELSE /\ information' =
                  Section_add_field(Section_add_field(Section_add_field(
                  Section_add_field(Section_add_field(
                      Report_add_section(information, "instance",
                                         "Instances from current cluster", <<>>),
                      "name", "Name"), "type", "Type"), "state", "State"),
                      "ip", "IP Address"), "placement", "Placement")
            /\ r_exc' = None
    /\ r_last' = [method |-> "add_instance_info"]
    /\ UNCHANGED <<cluster_config, r_log>>
    /\ UNCHANGED notReport

\* resources.Report.add_cluster_info, lines 272-289
Report_add_cluster_info ==
    /\ IF "cluster" \in SectionNames(information)
       THEN /\ r_exc' = "ProgrammingError"
            /\ UNCHANGED information
       ELSE /\ information' =
                  Section_add_item(Section_add_item(
                      Report_add_section(information, "cluster",
                                         "Cluster configuration",
                                         <<[name |-> "name"], [name |-> "value"]>>),
                      "Frontend node"), "Compute nodes")
            /\ r_exc' = None
    /\ r_last' = [method |-> "add_cluster_info"]
    /\ UNCHANGED <<cluster_config, r_log>>
    /\ UNCHANGED notReport

\* a call of AzureAPI.cloud_services
AzureAPI_cloud_services_call ==
    /\ Len(r_log) < MaxLog
    /\ \E response \in Responses :
         LET api == AzureAPI_cloud_services(response)
         IN  /\ r_log' = r_log \o api.log
             /\ r_last' = [method |-> "cloud_services", groups |-> api.output,
                           response |-> response, api_log |-> api.log]
    /\ r_exc' = None
    /\ UNCHANGED <<cluster_config, information>>
    /\ UNCHANGED notReport

ReportNext ==
    \/ Report_security_groups
    \/ AzureAPI_cloud_services_call
    \/ Report_add_instance_info
    \/ Report_add_cluster_info

SpecReport == ReportInit /\ [][ReportNext]_vars

-----------------------------------------------------------------------------
(* BaseCloudProvider.run_script *)

\* A text is a sequence of chunks and a chunk a sequence of tokens: the
\* components of a path, each a stem followed by its extensions, and
\* whitespace.
Whitespace == {<<" ">>, <<"\n">>}
Extensions == {".sh", ".gz", ".log"}

\* the value of a variable: None, a text, or an exception
NoneValue == [kind |-> "None", text |-> <<>>]
Str(text) == [kind |-> "str", text |-> text]
Exception(name) == [kind |-> "exception", text |-> <<<<name>>>>]

\* str.strip
RECURSIVE lstrip(_)
lstrip(text) ==
    IF text # <<>> /\ Head(text) \in Whitespace THEN lstrip(Tail(text)) ELSE text

RECURSIVE rstrip(_)
rstrip(text) ==
    IF text # <<>> /\ Last(text) \in Whitespace
    THEN rstrip(SubSeq(text, 1, Len(text) - 1)) ELSE text

strip(text) == rstrip(lstrip(text))

\* os.path.join(a, b) for a relative b
join(a, b) == Append(a, b)

\* os.path.splitext on a file name: the last extension is split off, a name
\* that is nothing but an extension has none
splitext(name) ==
    IF Len(name) > 1 /\ Last(name) \in Extensions
    THEN <<SubSeq(name, 1, Len(name) - 1), <<Last(name)>>>>
    ELSE <<name, <<>>>>

\* os.path.splitext(path)[0]
splitext_root(path) ==
    IF path = <<>> THEN <<>>
    ELSE SubSeq(path, 1, Len(path) - 1) \o <<splitext(Last(path))[1]>>

\* "%(name)s.log" % {"name": name}
with_log(path) ==
    IF path = <<>> THEN <<<<".log">>>>
    ELSE SubSeq(path, 1, Len(path) - 1) \o <<Append(Last(path), ".log")>>

HOME_DIR == [command |-> "echo $HOME"]
CHMOD(mode, file) == [command |-> "chmod", mode |-> mode, file |-> file]
SCREEN(name, script, output) ==
    [command |-> "screen", name |-> name, script |-> script, output |-> output]

\* BaseCloudProvider._execute_remote, lines 131-136, for what
\* connection.exec_command did: it raised paramiko.SSHException, or it gave
\* the streams of the command
BaseCloudProvider_execute_remote(outcome) ==
    IF outcome.raised
    THEN <<NoneValue, Exception("SSHException")>>
    ELSE <<Str(outcome.stdout), Str(outcome.stderr)>>

-----------------------------------------------------------------------------
(* BaseCloudProvider.run_script: the inputs of the model *)

Scripts ==
    {<<<<"tmp">>, <<"run", ".sh">>>>,
     <<<<"jobs">>, <<"align">>>>,
     <<<<"tmp">>, <<"data", ".gz", ".sh">>>>}

HomeOutputs ==
    {<<<<"home">>, <<"ubuntu">>, <<"\n">>>>,
     <<<<"root">>, <<"\n">>>>,
     <<<<" ">>, <<"home">>, <<"u">>, <<" ">>, <<"\n">>>>}

\* what exec_command may do with a command whose output is stdout
Outcomes(stdout) ==
    {[raised |-> TRUE, stdout |-> <<>>, stderr |-> <<>>]} \cup
    {[raised |-> FALSE, stdout |-> stdout, stderr |-> e] :
        e \in {<<>>, <<<<"denied">>>>}}

-----------------------------------------------------------------------------
(* BaseCloudProvider.run_script: the state machine *)

ProviderInit ==
    /\ s_script \in Scripts
    /\ s_home \in HomeOutputs
    /\ s_pc = "idle"
    /\ s_client = [connected |-> FALSE, open |-> FALSE]
    /\ s_results = <<>>
    /\ s_remote_file = <<>>
    /\ s_output_file = <<>>
    /\ s_screen_name = <<>>
    /\ s_frontend = <<>>
    /\ s_exc = None
    /\ CollectorIdle
    /\ ParserIdle
    /\ ReportIdle
    /\ BiodataIdle
    /\ DatadirIdle
    /\ PackIdle
    /\ MappingIdle

\* run_script, lines 198-202: the frontend node is connected to; a failure to
\* connect leaves run_script
Provider_run_script_connect ==
    /\ s_pc = "idle"
    /\ \E connected \in BOOLEAN :
         IF connected
         THEN /\ s_client' = [connected |-> TRUE, open |-> TRUE]
              /\ s_pc' = "home"
              /\ UNCHANGED s_exc
         ELSE /\ s_pc' = "raised"
              /\ s_exc' = "ConnectivityError"
              /\ UNCHANGED s_client
    /\ UNCHANGED <<s_script, s_home, s_results, s_remote_file, s_output_file,
                   s_screen_name, s_frontend>>
    /\ UNCHANGED notProvider

\* run_script, lines 204-209: the home directory is asked for and the names
\* are derived from it; home_dir.strip() on None is an AttributeError
Provider_run_script_home ==
    /\ s_pc = "home"
    /\ \E outcome \in Outcomes(s_home) :
         LET returned == BaseCloudProvider_execute_remote(outcome)
             home_dir == returned[1]
             script_name == basename(s_script)
             remote_file == join(strip(home_dir.text), script_name)
         IN  /\ s_results' = Append(s_results,
                     [command |-> HOME_DIR, outcome |-> outcome,
                      pair |-> returned])
             /\ s_frontend' = IF outcome.raised THEN s_frontend
                              ELSE Append(s_frontend, HOME_DIR)
             /\ IF home_dir.kind = "None"
                THEN /\ s_pc' = "raised"
                     /\ s_exc' = "AttributeError"
                     /\ UNCHANGED <<s_remote_file, s_output_file, s_screen_name>>
                ELSE /\ s_remote_file' = remote_file
                     /\ s_output_file' = with_log(splitext_root(remote_file))
                     /\ s_screen_name' = splitext(script_name)[1]
                     /\ s_pc' = "upload"
                     /\ UNCHANGED s_exc
    /\ UNCHANGED <<s_script, s_home, s_client>>
    /\ UNCHANGED notProvider

\* run_script, lines 211-213: the script is put on the frontend node; a
\* failure of the transfer leaves run_script
Provider_run_script_upload ==
    /\ s_pc = "upload"
    /\ \E put \in BOOLEAN :
         IF put
         THEN /\ s_frontend' = Append(s_frontend,
                     [command |-> "put", file |-> s_remote_file])
              /\ s_pc' = "chmod"
              /\ UNCHANGED s_exc
         ELSE /\ s_pc' = "raised"
              /\ s_exc' = "IOError"
              /\ UNCHANGED s_frontend
    /\ UNCHANGED <<s_script, s_home, s_client, s_results, s_remote_file,
                   s_output_file, s_screen_name>>
    /\ UNCHANGED notProvider

\* run_script, lines 215-216: the script is made executable; what
\* _execute_remote returns is dropped
Provider_run_script_chmod ==
    /\ s_pc = "chmod"
    /\ \E outcome \in Outcomes(<<>>) :
         LET command == CHMOD("a+x", s_remote_file)
             returned == BaseCloudProvider_execute_remote(outcome)
         IN  /\ s_results' = Append(s_results,
                     [command |-> command, outcome |-> outcome,
                      pair |-> returned])
             /\ s_frontend' = IF outcome.raised THEN s_frontend
                              ELSE Append(s_frontend, command)
             /\ s_pc' = "screen"
    /\ UNCHANGED s_exc
    /\ UNCHANGED <<s_script, s_home, s_client, s_remote_file, s_output_file,
                   s_screen_name>>
    /\ UNCHANGED notProvider

\* run_script, lines 217-219: the script is started in a screen session; what
\* _execute_remote returns is dropped
Provider_run_script_screen ==
    /\ s_pc = "screen"
    /\ \E outcome \in Outcomes(<<>>) :
         LET command == SCREEN(s_screen_name, s_remote_file, s_output_file)
             returned == BaseCloudProvider_execute_remote(outcome)
         IN  /\ s_results' = Append(s_results,
                     [command |-> command, outcome |-> outcome,
                      pair |-> returned])
             /\ s_frontend' = IF outcome.raised THEN s_frontend
                              ELSE Append(s_frontend, command)
             /\ s_pc' = "close"
    /\ UNCHANGED s_exc
    /\ UNCHANGED <<s_script, s_home, s_client, s_remote_file, s_output_file,
                   s_screen_name>>
    /\ UNCHANGED notProvider

\* run_script, line 220
Provider_run_script_close ==
    /\ s_pc = "close"
    /\ s_client' = [s_client EXCEPT !.open = FALSE]
    /\ s_pc' = "done"
    /\ UNCHANGED <<s_script, s_home, s_results, s_remote_file, s_output_file,
                   s_screen_name, s_frontend, s_exc>>
    /\ UNCHANGED notProvider

ProviderNext ==
    \/ Provider_run_script_connect
    \/ Provider_run_script_home
    \/ Provider_run_script_upload
    \/ Provider_run_script_chmod
    \/ Provider_run_script_screen
    \/ Provider_run_script_close

SpecProvider == ProviderInit /\ [][ProviderNext]_vars

-----------------------------------------------------------------------------
(* AzureProvider.upload_biodata *)

\* self._biodata_template.format(build=genome, target=target): the URL as its
\* host and the segments of its path
AzureProvider_biodata(genome, target) ==
    <<"bcbio.blob.core.windows.net", "biodata", "prepped", genome,
      <<genome, "-", target, ".tar.gz">>>>

\* storage_manager.parse_remote: the container is the first segment of the
\* path, the blob the rest
AzureBlob_parse_remote(url) ==
    [container |-> url[2], blob |-> SubSeq(url, 3, Len(url))]

\* storage_manager.exists
AzureBlob_exists(storage, container, blob) ==
    [container |-> container, blob |-> blob] \in storage

\* a finally block that leaves the archive where it is
AzureProvider_finally_kept(disk, archive) == disk

\* upload_biodata, lines 191-192: os.remove(archive) if the file is there
AzureProvider_finally(disk, archive) ==
    IF archive \in disk THEN disk \ {archive} ELSE disk

-----------------------------------------------------------------------------
(* AzureProvider.upload_biodata: the inputs of the model *)

Genomes == {"GRCh37", "hg38"}
Targets == {"bwa", "seq"}

\* the archive that compress writes
Archive == "biodata.tar.gz"

\* the blobs the storage may hold before the call
Blobs ==
    {AzureBlob_parse_remote(AzureProvider_biodata(g, t)) :
        g \in Genomes, t \in Targets}

-----------------------------------------------------------------------------
(* AzureProvider.upload_biodata: the state machine *)

BiodataInit ==
    /\ b_genome \in Genomes
    /\ b_target \in Targets
    /\ b_storage \in SUBSET Blobs
    /\ b_disk \in {{}, {"notes.txt"}}
    /\ b_pc = "idle"
    /\ b_archive = [bound |-> FALSE, path |-> None]
    /\ b_file_info = [container |-> None, blob |-> <<>>]
    /\ b_exists = [asked |-> FALSE, answer |-> FALSE]
    /\ b_uploads = <<>>
    /\ b_exc = None
    /\ CollectorIdle
    /\ ParserIdle
    /\ ReportIdle
    /\ ProviderIdle
    /\ DatadirIdle
    /\ PackIdle
    /\ MappingIdle

\* upload_biodata, lines 174-178: the source is compressed; compress returns
\* the archive it wrote, or raises and archive stays unbound
AzureProvider_upload_biodata_compress ==
    /\ b_pc = "idle"
    /\ \E compressed \in BOOLEAN :
         IF compressed
         THEN /\ b_archive' = [bound |-> TRUE, path |-> Archive]
              /\ b_disk' = b_disk \cup {Archive}
              /\ b_pc' = "exists"
              /\ UNCHANGED b_exc
         ELSE /\ b_exc' = "IOError"
              /\ b_pc' = "finally"
              /\ UNCHANGED <<b_archive, b_disk>>
    /\ UNCHANGED <<b_genome, b_target, b_storage, b_file_info, b_exists,
                   b_uploads>>
    /\ UNCHANGED notBiodata

\* upload_biodata, lines 179-184: the storage manager is asked whether the
\* blob exists; when it does the call returns through the finally block
AzureProvider_upload_biodata_exists ==
    /\ b_pc = "exists"
    /\ LET biodata == AzureProvider_biodata(b_genome, b_target)
           file_info == AzureBlob_parse_remote(biodata)
           answer == AzureBlob_exists(b_storage, file_info.container,
                                      file_info.blob)
       IN  \E answered \in BOOLEAN :
             /\ b_file_info' = file_info
             /\ IF ~answered
                THEN /\ b_exc' = "StorageError"
                     /\ b_pc' = "finally"
                     /\ UNCHANGED b_exists
                ELSE /\ b_exists' = [asked |-> TRUE, answer |-> answer]
                     /\ b_pc' = IF answer THEN "finally" ELSE "upload"
                     /\ UNCHANGED b_exc
    /\ UNCHANGED <<b_genome, b_target, b_storage, b_disk, b_archive, b_uploads>>
    /\ UNCHANGED notBiodata

\* upload_biodata, lines 185-189: the archive is uploaded; upload may fail
AzureProvider_upload_biodata_upload ==
    /\ b_pc = "upload"
    /\ \E uploaded \in BOOLEAN :
         /\ b_uploads' = Append(b_uploads,
                [path |-> b_archive.path, filename |-> b_file_info.blob,
                 container |-> b_file_info.container, done |-> uploaded])
         /\ IF uploaded
            THEN /\ b_storage' = b_storage \cup
                       {[container |-> b_file_info.container,
                         blob |-> b_file_info.blob]}
                 /\ UNCHANGED b_exc
            ELSE /\ b_exc' = "StorageError"
                 /\ UNCHANGED b_storage
         /\ b_pc' = "finally"
    /\ UNCHANGED <<b_genome, b_target, b_disk, b_archive, b_file_info, b_exists>>
    /\ UNCHANGED notBiodata

\* upload_biodata, lines 190-192: the finally block; with archive unbound
\* os.path.exists(archive) is an UnboundLocalError that takes the place of
\* the exception on its way out
AzureProvider_upload_biodata_finally ==
    /\ b_pc = "finally"
    /\ IF ~b_archive.bound
       THEN /\ b_exc' = "UnboundLocalError"
            /\ b_pc' = "raised"
            /\ UNCHANGED b_disk
       ELSE /\ b_disk' = AzureProvider_finally(b_disk, b_archive.path)
            /\ b_pc' = IF b_exc = None THEN "returned" ELSE "raised"
            /\ UNCHANGED b_exc
    /\ UNCHANGED <<b_genome, b_target, b_storage, b_archive, b_file_info,
                   b_exists, b_uploads>>
    /\ UNCHANGED notBiodata

BiodataNext ==
    \/ AzureProvider_upload_biodata_compress
    \/ AzureProvider_upload_biodata_exists
    \/ AzureProvider_upload_biodata_upload
    \/ AzureProvider_upload_biodata_finally

SpecBiodata == BiodataInit /\ [][BiodataNext]_vars

-----------------------------------------------------------------------------
(* DataDirectory: paths and the file system *)

\* a path is [abs, parts]: whether it begins with "/", and its segments; a
\* directory of the file system is the sequence of its segments from the root

Path(abs, parts) == [abs |-> abs, parts |-> parts]

\* an argument that was not given
NoPath == [none |-> TRUE, value |-> Path(FALSE, <<>>)]

GivenPath(path) == [none |-> FALSE, value |-> path]

\* a or b, on paths: None and the empty string are false
Or(a, b) ==
    IF a.none \/ (~a.value.abs /\ a.value.parts = <<>>) THEN b ELSE a

RECURSIVE normparts(_, _)
\* os.path.normpath on the segments: "." is dropped, ".." drops the segment
\* before it
normparts(parts, acc) ==
    IF parts = <<>> THEN acc
    ELSE LET part == Head(parts)
         IN  IF part = "." THEN normparts(Tail(parts), acc)
             ELSE IF part = ".."
                  THEN normparts(Tail(parts),
                           IF acc = <<>> THEN acc
                           ELSE SubSeq(acc, 1, Len(acc) - 1))
                  ELSE normparts(Tail(parts), Append(acc, part))

\* os.path.abspath: a relative path is joined to the working directory, and
\* the result is normalised
abspath(cwd, path) ==
    Path(TRUE, normparts(IF path.abs THEN path.parts ELSE cwd \o path.parts,
                         <<>>))

\* the directory the operating system resolves a path to
resolve(cwd, path) == abspath(cwd, path).parts

\* os.path.exists
exists(fs, cwd, path) == resolve(cwd, path) \in fs

\* directory is below root, or is root
within(root, directory) ==
    /\ Len(root) <= Len(directory)
    /\ SubSeq(directory, 1, Len(root)) = root

\* shutil.rmtree: the directory and all that is below it are gone
rmtree(fs, cwd, path) ==
    {directory \in fs : ~within(resolve(cwd, path), directory)}

\* os.makedirs: the directory and the missing ones above it are made
makedirs(fs, cwd, path) ==
    LET directory == resolve(cwd, path)
    IN  fs \cup {SubSeq(directory, 1, k) : k \in 0..Len(directory)}

\* prologue, line 36: os.path.abspath(self.args.datadir or self.args.path)
DataDirectory_path(args, cwd) ==
    abspath(cwd, Or(args.datadir, GivenPath(args.path)).value)

-----------------------------------------------------------------------------
(* DataDirectory: the inputs of the model *)

\* the values of --path; the first is the default
PathArgs ==
    {Path(FALSE, <<"~", "data">>), Path(FALSE, <<".", "data">>),
     Path(TRUE, <<"srv", "data">>)}

\* the values of datadir
DatadirArgs ==
    {NoPath, GivenPath(Path(FALSE, <<>>)),
     GivenPath(Path(TRUE, <<"srv", "data">>)),
     GivenPath(Path(FALSE, <<"..", "srv", "data">>))}

WorkingDirectory == <<"home">>

\* the directories that may exist beside the root and the working directory
OtherDirectories ==
    {<<"home", "~">>, <<"home", "~", "data">>, <<"home", "data">>,
     <<"home", "data", "genomes">>, <<"srv">>, <<"srv", "data">>,
     <<"srv", "data", "genomes">>}

\* a file system holds the directory above each of its directories
FileSystems ==
    {fs \in SUBSET OtherDirectories :
        \A directory \in fs :
            Len(directory) > 2 =>
                SubSeq(directory, 1, Len(directory) - 1) \in fs}

-----------------------------------------------------------------------------
(* DataDirectory: the state machine *)

DatadirInit ==
    /\ d_args \in [force : BOOLEAN, datadir : DatadirArgs, path : PathArgs]
    /\ d_cwd = WorkingDirectory
    /\ d_fs0 \in {fs \cup {<<>>, WorkingDirectory} : fs \in FileSystems}
    /\ d_fs = d_fs0
    /\ d_pc = "prologue"
    /\ d_removed = <<>>
    /\ d_created = <<>>
    /\ d_exc = None
    /\ CollectorIdle
    /\ ParserIdle
    /\ ReportIdle
    /\ ProviderIdle
    /\ BiodataIdle
    /\ PackIdle
    /\ MappingIdle

\* prologue, lines 31-38
DataDirectory_prologue ==
    /\ d_pc = "prologue"
    /\ IF d_args.force
       THEN /\ d_pc' = "work"
            /\ UNCHANGED <<d_args, d_exc>>
       ELSE LET path == DataDirectory_path(d_args, d_cwd)
            IN  /\ d_args' = [d_args EXCEPT !.path = path]
                /\ IF exists(d_fs, d_cwd, path)
                   THEN /\ d_exc' = "BCBioException"
                        /\ d_pc' = "failed"
                   ELSE /\ d_pc' = "work"
                        /\ UNCHANGED d_exc
    /\ UNCHANGED <<d_cwd, d_fs, d_fs0, d_removed, d_created>>
    /\ UNCHANGED notDatadir

\* work, lines 40-45
DataDirectory_work ==
    /\ d_pc = "work"
    /\ LET remove == exists(d_fs, d_cwd, d_args.path) /\ d_args.force
           fs == IF remove THEN rmtree(d_fs, d_cwd, d_args.path) ELSE d_fs
       IN  /\ d_removed' = IF remove
                           THEN Append(d_removed, resolve(d_cwd, d_args.path))
                           ELSE d_removed
           /\ IF exists(fs, d_cwd, d_args.path)
              THEN /\ d_exc' = "OSError"
                   /\ d_pc' = "failed"
                   /\ d_fs' = fs
                   /\ UNCHANGED d_created
              ELSE /\ d_fs' = makedirs(fs, d_cwd, d_args.path)
                   /\ d_created' = Append(d_created,
                                          resolve(d_cwd, d_args.path))
                   /\ d_pc' = "done"
                   /\ UNCHANGED d_exc
    /\ UNCHANGED <<d_args, d_cwd, d_fs0>>
    /\ UNCHANGED notDatadir

DatadirNext ==
    \/ DataDirectory_prologue
    \/ DataDirectory_work

SpecDatadir == DatadirInit /\ [][DatadirNext]_vars

-----------------------------------------------------------------------------
(* Pack._remove_empty *)

\* the values of Python that _remove_empty tells apart: None, a scalar, a
\* list, a tuple (both hold their items in order) and a dict (its entries,
\* each a key and an item, no key twice)
PyNone == [kind |-> "None", scalar |-> 0, items |-> <<>>, entries |-> <<>>]
Scalar(value) == [PyNone EXCEPT !.kind = "scalar", !.scalar = value]
List(items) == [PyNone EXCEPT !.kind = "list", !.items = items]
Tuple(items) == [PyNone EXCEPT !.kind = "tuple", !.items = items]
Dict(entries) == [PyNone EXCEPT !.kind = "dict", !.entries = entries]

RECURSIVE NotNone(_)
\* lines 249-250: the items that are not None, in their order
NotNone(items) ==
    IF items = <<>> THEN <<>>
    ELSE IF Head(items).kind = "None" THEN NotNone(Tail(items))
         ELSE <<Head(items)>> \o NotNone(Tail(items))

RECURSIVE NotNoneEntries(_)
\* lines 256-257: the entries whose item is not None
NotNoneEntries(entries) ==
    IF entries = <<>> THEN <<>>
    ELSE IF Head(entries).item.kind = "None" THEN NotNoneEntries(Tail(entries))
         ELSE <<Head(entries)>> \o NotNoneEntries(Tail(entries))

RECURSIVE Pack_remove_empty_keeping(_)
\* _remove_empty with "return output" for a dict
Pack_remove_empty_keeping(argument) ==
    IF argument.kind \in {"list", "tuple"}
    THEN List(NotNone([i \in DOMAIN argument.items |->
                          Pack_remove_empty_keeping(argument.items[i])]))
    ELSE IF argument.kind = "dict"
         THEN Dict(NotNoneEntries([i \in DOMAIN argument.entries |->
                      [key |-> argument.entries[i].key,
                       item |-> Pack_remove_empty_keeping(
                                    argument.entries[i].item)]]))
         ELSE argument

RECURSIVE Pack_remove_empty(_)
\* Pack._remove_empty, lines 244-261
Pack_remove_empty(argument) ==
    IF argument.kind \in {"list", "tuple"}
    THEN List(NotNone([i \in DOMAIN argument.items |->
                          Pack_remove_empty(argument.items[i])]))
    ELSE IF argument.kind = "dict"
         THEN LET output == NotNoneEntries([i \in DOMAIN argument.entries |->
                                [key |-> argument.entries[i].key,
                                 item |-> Pack_remove_empty(
                                              argument.entries[i].item)]])
              IN  IF output # <<>> THEN Dict(output) ELSE PyNone
         ELSE argument

-----------------------------------------------------------------------------
(* Pack._remove_empty: the inputs of the model *)

\* None and the scalars; 0 is a scalar that is false
Flat == {PyNone, Scalar(0), Scalar(1)}

\* the containers of at most two items, the first of them drawn from
\* inner and the second from Flat
Containers(inner) ==
    LET items == {<<>>} \cup {<<a>> : a \in inner}
                        \cup {<<a, b>> : a \in inner, b \in Flat}
        entries == {[i \in DOMAIN it |->
                        [key |-> IF i = 1 THEN "a" ELSE "b", item |-> it[i]]] :
                    it \in items}
    IN  {List(i) : i \in items} \cup {Tuple(i) : i \in items}
          \cup {Dict(e) : e \in entries}

RECURSIVE Arguments(_)
\* the arguments nested at most depth deep
Arguments(depth) ==
    IF depth = 0 THEN Flat
    ELSE LET inner == Arguments(depth - 1)
         IN  inner \cup Containers(inner)

-----------------------------------------------------------------------------
(* Pack._remove_empty: the state machine *)

PackInit ==
    /\ k_pc = "call"
    /\ k_argument \in Arguments(MaxDepth)
    /\ k_output = PyNone
    /\ k_again = PyNone
    /\ CollectorIdle
    /\ ParserIdle
    /\ ReportIdle
    /\ ProviderIdle
    /\ BiodataIdle
    /\ DatadirIdle
    /\ MappingIdle

\* self._remove_empty(argument)
Pack_remove_empty_call ==
    /\ k_pc = "call"
    /\ k_output' = Pack_remove_empty(k_argument)
    /\ k_pc' = "returned"
    /\ UNCHANGED <<k_argument, k_again>>
    /\ UNCHANGED notPack

\* self._remove_empty on what the first call returned
Pack_remove_empty_again ==
    /\ k_pc = "returned"
    /\ k_again' = Pack_remove_empty(k_output)
    /\ k_pc' = "again"
    /\ UNCHANGED <<k_argument, k_output>>
    /\ UNCHANGED notPack

PackNext ==
    \/ Pack_remove_empty_call
    \/ Pack_remove_empty_again

SpecPack == PackInit /\ [][PackNext]_vars

-----------------------------------------------------------------------------
(* Pack._map_directories and Pack._local_directories *)

\* paths are sequences of characters here; a value that may be None is
\* [none, value]

sep == "/"

NoDir == [none |-> TRUE, value |-> <<>>]
Dir(text) == [none |-> FALSE, value |-> text]

\* str.startswith
startswith(text, prefix) ==
    /\ Len(text) >= Len(prefix)
    /\ SubSeq(text, 1, Len(prefix)) = prefix

RECURSIVE replace(_, _, _)
\* str.replace: every occurrence of old, from the left, becomes new
replace(text, old, new) ==
    IF Len(text) < Len(old) \/ old = <<>> THEN text
    ELSE IF startswith(text, old)
         THEN new \o replace(SubSeq(text, Len(old) + 1, Len(text)), old, new)
         ELSE <<Head(text)>> \o replace(Tail(text), old, new)

RECURSIVE lstrip_sep(_)
lstrip_sep(text) ==
    IF text # <<>> /\ Head(text) = sep THEN lstrip_sep(Tail(text)) ELSE text

RECURSIVE rstrip_sep(_)
rstrip_sep(text) ==
    IF text # <<>> /\ Last(text) = sep
    THEN rstrip_sep(SubSeq(text, 1, Len(text) - 1)) ELSE text

\* str.strip("/")
strip_sep(text) == rstrip_sep(lstrip_sep(text))

RECURSIVE split(_, _)
\* str.split(separator)
split(text, separator) ==
    LET first == SplitFirst(text, separator)
    IN  IF Len(first) = Len(text) THEN <<text>>
        ELSE <<first>> \o split(SubSeq(text, Len(first) + 2, Len(text)),
                                separator)

RECURSIVE sep_join(_)
\* os.path.sep.join(parts)
sep_join(parts) ==
    IF parts = <<>> THEN <<>>
    ELSE IF Len(parts) = 1 THEN parts[1]
         ELSE parts[1] \o <<sep>> \o sep_join(Tail(parts))

RECURSIVE normsegments(_, _)
\* os.path.normpath on the segments of an absolute path: empty segments and
\* "." are dropped, ".." drops the segment before it
normsegments(parts, acc) ==
    IF parts = <<>> THEN acc
    ELSE LET part == Head(parts)
         IN  IF part = <<>> \/ part = <<".">>
             THEN normsegments(Tail(parts), acc)
             ELSE IF part = <<".", ".">>
                  THEN normsegments(Tail(parts),
                           IF acc = <<>> THEN acc
                           ELSE SubSeq(acc, 1, Len(acc) - 1))
                  ELSE normsegments(Tail(parts), Append(acc, part))

\* os.path.normpath of an absolute path
normpath(text) == <<sep>> \o sep_join(normsegments(split(text, sep), <<>>))

\* os.path.abspath, as a sequence of characters
os_abspath(cwd, text) ==
    IF startswith(text, <<sep>>) THEN normpath(text)
    ELSE normpath(cwd \o <<sep>> \o text)

\* os.path.dirname: what is before the last separator, without separators
\* at its end unless it is nothing but separators
dirname(text) ==
    LET parts == split(text, sep)
        head == SubSeq(text, 1, Len(text) - Len(Last(parts)))
    IN  IF rstrip_sep(head) = <<>> THEN head ELSE rstrip_sep(head)

\* str(n) for a natural number
str(n) ==
    LET digits == Decimal(n)
    IN  [i \in DOMAIN digits |->
            <<"0", "1", "2", "3", "4", "5", "6", "7", "8", "9">>[digits[i] + 1]]

\* shipping_config.containers
Containers_run == "run"
Containers_biodata == "biodata"

\* the folder externalmap/<n>; the word externalmap is one element of the
\* sequence
externalmap(n) == <<"externalmap", sep>> \o str(n)

RECURSIVE pop_until(_, _)
\* _local_directories, lines 277-279: parts.pop() until the genome build
\* was popped or nothing is left
pop_until(parts, genome_build) ==
    IF parts = <<>> THEN parts
    ELSE LET rest == SubSeq(parts, 1, Len(parts) - 1)
         IN  IF Last(parts) = genome_build THEN rest
             ELSE pop_until(rest, genome_build)

\* _local_directories, lines 269-273: whether NotImplementedError is
\* raised; keys() is a list in Python 2 and a view, never equal to a list,
\* in Python 3
Pack_alternative_references(data) ==
    /\ data.alt # "absent"
    /\ data.python3 \/ data.alt # "build"

\* _local_directories, lines 275-282: biodata_dir
Pack_biodata_dir(data) ==
    LET parts == pop_until(split(data.base, sep), data.genome_build)
    IN  IF parts # <<>> THEN Dir(sep_join(parts)) ELSE NoDir

\* _map_directories, lines 297-300: the directory of a file name
Pack_callback(cwd, filename) ==
    normpath(dirname(os_abspath(cwd, filename)))

\* _map_directories, lines 303-312: the container and the folder of one
\* directory, and the count of external directories after it
Pack_map_directory(directory, work_dir, biodata_dir, external_count) ==
    IF ~work_dir.none /\ work_dir.value # <<>>
       /\ startswith(directory, work_dir.value)
    THEN [container |-> Containers_run,
          folder |-> strip_sep(replace(directory, work_dir.value, <<>>)),
          external_count |-> external_count]
    ELSE IF ~biodata_dir.none /\ biodata_dir.value # <<>>
            /\ startswith(directory, biodata_dir.value)
    THEN [container |-> Containers_biodata,
          folder |-> strip_sep(replace(directory, biodata_dir.value, <<>>)),
          external_count |-> external_count]
    ELSE [container |-> Containers_run,
          folder |-> externalmap(external_count),
          external_count |-> external_count + 1]

-----------------------------------------------------------------------------
(* Pack._map_directories: the inputs of the model *)

\* the working directory of the process
Cwd == <<"/", "w", "/", "a">>

\* dirs.work of the data: not set, or /w
WorkDirs == {NoDir, Dir(<<"/", "w">>)}

GenomeBuild == <<"t">>

\* reference.fasta.base of the data: below /g/t, below /t, and with no
\* segment that is the genome build
FastaBases ==
    {<<"/", "g", "/", "t", "/", "a", "/", "x">>,
     <<"/", "t", "/", "a">>,
     <<"/", "g", "/", "a", "/", "x">>}

\* the file names of the arguments
Filenames ==
    {<<"/", "w", "/", "f">>,
     <<"/", "w", "/", "a", "/", "f">>,
     <<"f">>,
     <<"/", "w", "2", "/", "f">>,
     <<"/", "g", "/", "t", "/", "f">>,
     <<"/", "g", "2", "/", ".", ".", "/", "g", "/", "f">>,
     <<"/", "x", "/", ".", "/", "f">>,
     <<"/", "a", "/", "f">>}

-----------------------------------------------------------------------------
(* Pack._map_directories: the state machine *)

MappingInit ==
    /\ m_data \in [work : WorkDirs, base : FastaBases,
                    genome_build : {GenomeBuild},
                    alt : {"absent", "build", "other"}, python3 : BOOLEAN]
    /\ m_files \in {files \in SUBSET Filenames : Cardinality(files) <= MaxFiles}
    /\ m_pc = "local"
    /\ m_work_dir = NoDir
    /\ m_biodata_dir = NoDir
    /\ m_directories = {}
    /\ m_todo = <<>>
    /\ m_external_count = 0
    /\ m_output = <<>>
    /\ m_exc = None
    /\ CollectorIdle
    /\ ParserIdle
    /\ ReportIdle
    /\ ProviderIdle
    /\ BiodataIdle
    /\ DatadirIdle
    /\ PackIdle

\* _map_directories, line 295: self._local_directories(args), lines 263-282
Pack_local_directories ==
    /\ m_pc = "local"
    /\ IF Pack_alternative_references(m_data)
       THEN /\ m_exc' = "NotImplementedError"
            /\ m_pc' = "raised"
            /\ UNCHANGED <<m_work_dir, m_biodata_dir>>
       ELSE /\ m_work_dir' = m_data.work
            /\ m_biodata_dir' = Pack_biodata_dir(m_data)
            /\ m_pc' = "walk"
            /\ UNCHANGED m_exc
    /\ UNCHANGED <<m_data, m_files, m_directories, m_todo, m_external_count,
                   m_output>>
    /\ UNCHANGED notMapping

\* _map_directories, lines 297-303: walk_files calls _callback for every
\* file name, and the directories are sorted
Pack_map_directories_walk ==
    /\ m_pc = "walk"
    /\ LET directories == {Pack_callback(Cwd, filename) : filename \in m_files}
       IN  /\ m_directories' = directories
           /\ m_todo' = sorted(directories)
    /\ m_pc' = "loop"
    /\ UNCHANGED <<m_data, m_files, m_work_dir, m_biodata_dir,
                   m_external_count, m_output, m_exc>>
    /\ UNCHANGED notMapping

\* _map_directories, lines 303-318: one turn of the loop
Pack_map_directories_directory ==
    /\ m_pc = "loop"
    /\ m_todo # <<>>
    /\ LET directory == Head(m_todo)
           mapped == Pack_map_directory(directory, m_work_dir, m_biodata_dir,
                                        m_external_count)
       IN  /\ m_output' = SetItem(m_output, directory,
                                  [container |-> mapped.container,
                                   folder |-> mapped.folder])
           /\ m_external_count' = mapped.external_count
    /\ m_todo' = Tail(m_todo)
    /\ UNCHANGED <<m_data, m_files, m_pc, m_work_dir, m_biodata_dir,
                   m_directories, m_exc>>
    /\ UNCHANGED notMapping

\* _map_directories, line 320: return output
Pack_map_directories_return ==
    /\ m_pc = "loop"
    /\ m_todo = <<>>
    /\ m_pc' = "returned"
    /\ UNCHANGED <<m_data, m_files, m_work_dir, m_biodata_dir, m_directories,
                   m_todo, m_external_count, m_output, m_exc>>
    /\ UNCHANGED notMapping

MappingNext ==
    \/ Pack_local_directories
    \/ Pack_map_directories_walk
    \/ Pack_map_directories_directory
    \/ Pack_map_directories_return

SpecMapping == MappingInit /\ [][MappingNext]_vars

-----------------------------------------------------------------------------
(* Collector: the claims *)

\* all distinct private keys of all nodes of all roles
AllKeys == {cluster[i].user_key_private : i \in 1..Len(cluster)}

\* the FileInfo that stat and _collectl_files give for a remote file
FileInfoOf(file) == Collector_collectl_files(SSHClient_stat(<<file>>)[1])

\* C1: idempotence of Collector.run. When a run completed and the remote fleet
\* did not change before the next run, the next run performs zero downloads,
\* at its end and at every point on its way.
C1_Idempotence ==
    /\ \A r \in 2..Len(runs) :
          (runs[r - 1].completed /\ ~runs[r].changed) => runs[r].downloads = 0
    /\ (c_pc # "idle" /\ runs # <<>> /\ Last(runs).completed /\ ~changed)
          => c_downloaded = {}

\* C1, its case: two completed runs in a row over an unchanged fleet, the
\* second of which compared remote files with the cache
C1_Witness ==
    /\ Len(runs) = 2
    /\ runs[1].completed /\ runs[2].completed /\ ~runs[2].changed
    /\ c_checks # {}

\* C2: the diff rule as the specification states it. A remote file is
\* downloaded if and only if the cache has no file of its basename, or the
\* local modification time in whole seconds differs from the remote file's
\* modification time, or the local size differs from the remote file's size.
C2_DiffRule ==
    \A k \in c_checks :
        k.download <=> \/ ~k.local.exists
                       \/ k.local.mtime.sec # k.remote.mtime
                       \/ k.local.size # k.remote.size

\* C3: isolation on partial failure. A run in which the connection to a node
\* failed does not raise, and every node with a preferred address got its
\* session.
C3_Isolation ==
    (/\ c_pc \in {"exiting", "raising"}
     /\ \E i \in 1..Len(sessions) :
           sessions[i].loop = "nodes" /\ ~sessions[i].connected)
    => /\ c_pc = "exiting"
       /\ \A n \in 1..Len(c_nodes) :
             \E i \in 1..Len(sessions) :
                 /\ sessions[i].loop = "nodes"
                 /\ sessions[i].client.host = c_nodes[n].preferred_ip

\* C4: whenever the diff decides to download a file, the download is carried
\* out with the remote times, and a diff of the file against the unchanged
\* remote file then reports no difference.
C4_DownloadStable ==
    \A k \in c_checks :
        k.download =>
            /\ k.name \in c_downloaded
            /\ ~Collector_is_different(cache[k.name], FileInfoOf(k.remote))

\* C5: the key-agent scope of Collector.run. While run is active the agent
\* holds all distinct private keys of all nodes of all roles, every session
\* was set up while it did, and outside run, after a return as after an
\* exception, the agent holds none.
C5_KeyAgentScope ==
    /\ c_pc = "idle" => agent = {}
    /\ c_pc # "idle" => agent = AllKeys
    /\ \A i \in 1..Len(sessions) : sessions[i].agent = AllKeys

\* C5, its case: a run that raised and a run that returned, the latter with
\* sessions of the per-node loop and of the shared-filesystem pass, and the
\* keys released
C5_Witness ==
    /\ c_pc = "idle"
    /\ Len(runs) = 2
    /\ ~runs[1].completed /\ runs[2].completed
    /\ \E i, j \in 1..Len(sessions) :
          sessions[i].loop = "nodes" /\ sessions[j].loop = "lustre"
    /\ agent = {}
    /\ Cardinality(AllKeys) > 1

\* C6: the host-key policy of every session Collector sets up. Without a
\* bastion unknown host keys are rejected, through a bastion they are trusted,
\* and a session that _collect was asked to open through a bastion is a
\* session through that bastion.
C6_HostKeyPolicy ==
    \A i \in 1..Len(sessions) :
        LET s == sessions[i]
        IN  /\ s.client.bastion_host = None => s.client.policy = RejectPolicy
            /\ s.client.bastion_host # None => s.client.policy = AutoAddPolicy
            /\ s.wanted_bastion # None =>
                  /\ s.client.bastion_host = s.wanted_bastion
                  /\ s.client.policy = AutoAddPolicy

\* the remote files of all hosts
RemoteFiles == UNION {{remote[h][i] : i \in 1..Len(remote[h])} : h \in DOMAIN remote}

\* C14: Collector never clears or removes content of the cache directory. In
\* every step a file that is in the cache directory stays in it, and it is
\* either left as it is or it is the file of a download, in this step, of a
\* remote file of the same basename.
C14_NoPreClear ==
    [][\A n \in DOMAIN cache :
          cache[n].exists =>
              /\ cache'[n].exists
              /\ \/ cache'[n] = cache[n]
                 \/ /\ n \in c_downloaded'
                    /\ \E f \in RemoteFiles :
                          basename(f.path) = n /\ cache'[n].size = f.size]_vars

\* C14, its case: a run that returned after it compared a remote file with
\* the file of its name in the cache directory, beside a cached file that no
\* node lists
C14_Witness ==
    /\ c_pc = "idle"
    /\ runs # <<>>
    /\ Last(runs).completed
    /\ \E k \in c_checks : k.local.exists /\ cache[k.name] = k.local
    /\ cache["old"].exists
    /\ \A f \in RemoteFiles : basename(f.path) # "old"

\* C15: strictly sequential sessions. At every point of a run every session
\* the run has set up, but the last, is closed: at most one session is open,
\* and the session of a host, the one that asks for the backing device
\* included, was closed before the session of the next host was set up.
C15_Sequential ==
    \A i \in 1..Len(sessions) :
        sessions[i].open => i = Len(sessions)

\* C15, its case: the open session of an instance of the stack, after the
\* sessions of two nodes and the session that asked for the backing device
C15_Witness ==
    /\ c_pc = "files"
    /\ Len(sessions) >= 4
    /\ Last(sessions).open
    /\ Last(sessions).loop = "lustre"
    /\ sessions[1].loop = "nodes" /\ sessions[2].loop = "nodes"
    /\ \E i \in 1..Len(sessions) : sessions[i].loop = "management"

\* the sessions of the loop over the instances of the stack, in order
LustreSessions == SelectSeq(sessions, LAMBDA x : x.loop = "lustre")

\* C16: in the shared-filesystem pass every session set up to an instance of
\* the stack goes through the NAT device of the stack: the address of the NAT
\* device is the bastion host of the session.
C16_LustreBastion ==
    \A i \in 1..Len(LustreSessions) :
        LustreSessions[i].client.bastion_host = lustre.instances[NATDevice]

\* the targets of the loop over the instances: those it has set up a session
\* for and those it still has to visit
LustreTargets ==
    LET visited == [i \in 1..Len(LustreSessions) |-> LustreSessions[i].client.host]
        pending == [i \in 1..Len(c_todo) |-> c_todo[i].host]
    IN  IF visited # <<>> /\ pending # <<>> /\ Last(visited) = Head(pending)
        THEN visited \o Tail(pending)
        ELSE visited \o pending

\* C17: in the shared-filesystem pass the NAT device is never a collection
\* target, and every other instance of the stack is a collection target
\* exactly once; when the pass returns, every such instance had its session.
C17_LustreTargets ==
    c_loop = "lustre" =>
        /\ \A i \in 1..Len(LustreTargets) :
              LustreTargets[i] # lustre.instances[NATDevice]
        /\ \A name \in DOMAIN lustre.instances \ {NATDevice} :
              Cardinality({i \in 1..Len(LustreTargets) :
                              LustreTargets[i] = lustre.instances[name]}) = 1
        /\ Len(LustreTargets) = Cardinality(DOMAIN lustre.instances \ {NATDevice})
        /\ c_pc = "exiting" => Len(LustreSessions) = Len(LustreTargets)

\* C17, its case: the pass has returned after the sessions of the two
\* instances that are not the NAT device
C17_Witness ==
    /\ c_loop = "lustre"
    /\ c_pc = "exiting"
    /\ Len(LustreSessions) = 2
    /\ NATDevice \in DOMAIN lustre.instances

C19_FirstReachable ==
    (c_pc = "resolve" /\ SelectNodes(cluster) # <<>>) =>
        \E i \in 1..Len(sessions) :
            /\ sessions[i].loop = "management"
            /\ sessions[i].client.host = SelectNodes(cluster)[1].preferred_ip

\* the sessions of the per-node loop, in order
NodeSessions == SelectSeq(sessions, LAMBDA x : x.loop = "nodes")

\* C20: no automatic retry. The sessions of the per-node loop are, in the
\* order of the cluster, one session for each node that has a preferred
\* address and none for any other node: never two for one node, and all of
\* them once the loop is over. After a connect, a stat or a download has
\* failed, the run sets up no further session, compares no further file and
\* downloads nothing more.
C20_NoRetry ==
    [][/\ LET expected == SelectNodes(cluster)
          IN  /\ Len(NodeSessions') <= Len(expected)
              /\ \A i \in 1..Len(NodeSessions') :
                    /\ i <= Len(expected)
                    /\ NodeSessions'[i].client.host = expected[i].preferred_ip
                    /\ NodeSessions'[i].client.host # None
              /\ c_pc' \in {"management", "resolve", "exiting"}
                    => Len(NodeSessions') = Len(expected)
       /\ c_pc = "raising"
             => /\ sessions' = sessions
                /\ c_checks' = c_checks
                /\ c_downloaded' = c_downloaded
                /\ cache' = cache
                /\ c_pc' = "idle"]_vars

\* C20, its case: a run over a cluster whose second node has no address has
\* ended with the failure to connect to the third node, after one session for
\* the first node and one for the third
C20_Witness ==
    /\ c_pc = "idle"
    /\ runs # <<>>
    /\ ~Last(runs).completed
    /\ cluster[2].preferred_ip = None
    /\ Len(sessions) = 2
    /\ sessions[1].connected /\ sessions[1].client.host = cluster[1].preferred_ip
    /\ ~sessions[2].connected /\ sessions[2].client.host = cluster[3].preferred_ip

\* C24: every session is closed before the method that set it up returns or
\* raises. Wherever run is outside _collect and _management_target, in the
\* loops, after the passes and while an exception is on its way out, no
\* session is open.
C24_SessionsClosed ==
    c_pc \in {"collect", "resolve", "exiting", "raising", "idle"} =>
        \A i \in 1..Len(sessions) : ~sessions[i].open

-----------------------------------------------------------------------------
(* Parser: the claims *)

\* the rows of a file of the directory that are inside the window
RowsInside(name, start, end) ==
    SelectSeq(rawdir[name].rows, LAMBDA row : start <= row.t /\ row.t <= end)

\* the rows inside the window of the files of a sequence, one file after the other
RECURSIVE ConcatInside(_, _, _)
ConcatInside(names, start, end) ==
    IF names = <<>> THEN <<>>
    ELSE RowsInside(Head(names), start, end) \o ConcatInside(Tail(names), start, end)

\* the files of the directory that are captures of a host
CapturesOf(host) ==
    {n \in DOMAIN rawdir :
        \E date \in Dates : n = TelemetryName(host, date, Midnight)}

C8_HostAggregation ==
    p_pc = "done" =>
        \A host \in HostNames :
            LET expected == ConcatInside(sorted(CapturesOf(host)),
                                         p_time_frame.start, p_time_frame.end)
            IN  IF expected = <<>> THEN host \notin DOMAIN data_frames
                ELSE /\ host \in DOMAIN data_frames
                     /\ data_frames[host] = expected

\* C8, its case: a returned series of w1 with rows of both its captures
C8_Witness ==
    /\ p_pc = "done"
    /\ <<"w", "1">> \in DOMAIN data_frames
    /\ \E i, j \in 1..Len(data_frames[<<"w", "1">>]) :
          /\ i < j
          /\ data_frames[<<"w", "1">>][i].file = Web1Day1
          /\ data_frames[<<"w", "1">>][j].file = Web1Day2

\* C9: decode failures are file-local. A run over a pipeline log with
\* checkpoints returns, and every telemetry file of the directory that is not
\* corrupt was decoded.
C9_DecodeLocal ==
    (p_pc \in {"done", "raised"} /\ DOMAIN bcbio_timings # {}) =>
        /\ p_pc = "done"
        /\ \A n \in DOMAIN rawdir :
              (endswith(n, COLLECTL_SUFFIX) /\ ~rawdir[n].corrupt) =>
                  \E i \in 1..Len(p_decoded) : p_decoded[i].file = n

\* the captures of a host that have a row inside the window, in ascending
\* order of the file names
CapturesWithRows(host) ==
    SelectSeq(sorted(CapturesOf(host)),
              LAMBDA n : ~rawdir[n].corrupt /\
                         RowsInside(n, p_time_frame.start, p_time_frame.end) # <<>>)

\* C21: hardware facts are keyed by host and overwritten, not merged. In the
\* result of a run the hardware facts of a host are those of the last of its
\* captures, in ascending order of the file names, that decoded to rows; a
\* host none of whose captures decoded to rows has no hardware facts.
C21_HardwareLastWins ==
    p_pc = "done" =>
        \A host \in HostNames :
            IF CapturesWithRows(host) = <<>>
            THEN host \notin DOMAIN hardware_info
            ELSE /\ host \in DOMAIN hardware_info
                 /\ hardware_info[host] = Last(CapturesWithRows(host))

\* C21, its case: both captures of w1 decoded to rows and the hardware facts
\* returned for w1 are those of the second
C21_Witness ==
    /\ p_pc = "done"
    /\ CapturesWithRows(<<"w", "1">>) = <<Web1Day1, Web1Day2>>
    /\ hardware_info[<<"w", "1">>] = Web1Day2

\* C22: a file whose decode yields no row is skipped. The step of the scan
\* over a telemetry file that decodes to no row inside the window adds no
\* row, creates no host entry, changes no hardware facts, raises nothing, and
\* the scan goes on with the next file.
C22_EmptySkipped ==
    [][(/\ p_pc = "scan"
        /\ p_listing # <<>>
        /\ endswith(Head(p_listing), COLLECTL_SUFFIX)
        /\ ~rawdir[Head(p_listing)].corrupt
        /\ RowsInside(Head(p_listing), p_time_frame.start, p_time_frame.end) = <<>>)
       => /\ data_frames' = data_frames
          /\ hardware_info' = hardware_info
          /\ p_pc' = "scan"
          /\ p_exc' = None
          /\ p_listing' = Tail(p_listing)]_vars

\* C22, its case: a run has returned that decoded a capture with no row
\* inside the window, whose host has no entry, beside a host that has one
C22_Witness ==
    /\ p_pc = "done"
    /\ data_frames # <<>>
    /\ \E i \in 1..Len(p_decoded) :
          LET n == p_decoded[i].file
          IN  /\ RowsInside(n, p_time_frame.start, p_time_frame.end) = <<>>
              /\ rawdir[n].rows # <<>>
              /\ Parser_host(n) \notin DOMAIN data_frames
              /\ Parser_host(n) \notin DOMAIN hardware_info

\* C23: run decodes exactly the files whose name ends with .raw.gz. No other
\* file is ever decoded or gives a row or hardware facts to the result, no
\* file is decoded twice, and a run that returns has decoded every file of
\* the directory whose name ends with .raw.gz.
C23_SuffixOnly ==
    /\ \A i \in 1..Len(p_decoded) :
          /\ endswith(p_decoded[i].file, COLLECTL_SUFFIX)
          /\ \A j \in 1..Len(p_decoded) :
                p_decoded[i].file = p_decoded[j].file => i = j
    /\ \A h \in DOMAIN data_frames :
          \A i \in 1..Len(data_frames[h]) :
              endswith(data_frames[h][i].file, COLLECTL_SUFFIX)
    /\ \A h \in DOMAIN hardware_info : endswith(hardware_info[h], COLLECTL_SUFFIX)
    /\ p_pc = "done" =>
          {p_decoded[i].file : i \in 1..Len(p_decoded)} =
              {n \in DOMAIN rawdir : endswith(n, COLLECTL_SUFFIX)}

\* C23, its case: a run has returned that decoded two telemetry files of a
\* directory that also holds a text file with rows inside the window
C23_Witness ==
    /\ p_pc = "done"
    /\ TextFile \in DOMAIN rawdir
    /\ RowsInside(TextFile, p_time_frame.start, p_time_frame.end) # <<>>
    /\ Len(p_decoded) >= 2
    /\ data_frames # <<>>

\* C25: the time series and the hardware facts have the same host keys, in
\* the result of run and after each file of the scan.
C25_SameHosts ==
    DOMAIN data_frames = DOMAIN hardware_info

\* C25, its case: in the middle of the scan, with files still to visit, two
\* hosts have their entries
C25_Witness ==
    /\ p_pc = "scan"
    /\ p_listing # <<>>
    /\ Cardinality(DOMAIN data_frames) >= 2

-----------------------------------------------------------------------------
(* Report: the claims *)

\* the sections of the document that have the name
SectionsNamed(name) == {i \in 1..Len(information) : information[i].name = name}

\* C10: empty enrichment is non-fatal. After add_security_groups_info on a
\* document without section "sg", when the provider returned no security
\* group, the call has not raised, the document has one section "sg" with its
\* field and no item, and the last record of the log is the warning.
C10_EmptyEnrichment ==
    (/\ r_last.method = "add_security_groups_info"
     /\ r_last.fresh
     /\ r_last.groups = {})
    => /\ r_exc = None
       /\ \E i \in 1..Len(information) :
             /\ SectionsNamed("sg") = {i}
             /\ information[i].fields = <<[name |-> "sg", label |-> "Security Group"]>>
             /\ information[i].items = <<>>
       /\ r_log # <<>>
       /\ Last(r_log) = [level |-> "warning", event |-> "No security groups defined."]

\* C10, its case: the provider answered with a failure and the section is
\* there, empty, beside another section
C10_Witness ==
    /\ r_last.method = "add_security_groups_info"
    /\ r_last.fresh
    /\ r_last.groups = {}
    /\ Len(r_log) = 2
    /\ r_log[1].level = "error"
    /\ Len(information) = 2
    /\ information[2].name = "sg"
    /\ information[2].items = <<>>

\* C11: the content of the security-group section. After a call of
\* add_security_groups_info on a document without section "sg", for which the
\* provider returned security groups, the document has exactly one section
\* "sg", the calls on it are add_section, add_field and then one add_item for
\* each security group returned, and its items are those security groups,
\* each once, whether the expected security group is among them or not; when
\* it is not, the call has not raised and the last record of the log is a
\* warning.
C11_SectionContent ==
    /\ Cardinality(SectionsNamed("sg")) <= 1
    /\ (/\ r_last.method = "add_security_groups_info"
        /\ r_last.fresh
        /\ r_last.groups # {})
       => /\ r_exc = None
          /\ \E i \in 1..Len(information) :
                LET sg == information[i]
                    n == Cardinality(r_last.groups)
                IN  /\ SectionsNamed("sg") = {i}
                    /\ sg.fields = <<[name |-> "sg", label |-> "Security Group"]>>
                    /\ Len(sg.calls) = 2 + n
                    /\ sg.calls[1] = "add_section"
                    /\ sg.calls[2] = "add_field"
                    /\ \A c \in 3..(2 + n) : sg.calls[c] = "add_item"
                    /\ Len(sg.items) = n
                    /\ {sg.items[k] : k \in 1..n} = r_last.groups
          /\ cluster_config.security_group \notin r_last.groups
                => /\ r_log # <<>>
                   /\ Last(r_log).level = "warning"

\* C11, its case: the provider returned two security groups, neither of them
\* the expected one, and the section "sg" with its two items is the second
\* section of the document
C11_Witness ==
    /\ r_last.method = "add_security_groups_info"
    /\ r_last.fresh
    /\ r_last.groups = {"a", "b"}
    /\ cluster_config.security_group = "c"
    /\ Len(information) = 2
    /\ information[2].name = "sg"
    /\ Len(information[2].items) = 2
    /\ Last(r_log).level = "warning"

\* the last call reached the provider and got a response
AskedProvider ==
    \/ r_last.method = "cloud_services"
    \/ r_last.method = "add_security_groups_info" /\ r_last.fresh

\* C12: provider API errors yield an empty result. When the response to
\* security_groups or to cloud_services has a status other than 200, or a
\* body that is no XML, the function has returned the empty set, has written
\* a record to the log, and has not raised.
C12_ApiErrorsEmpty ==
    (/\ AskedProvider
     /\ \/ r_last.response.status_code # HTTP_OK
        \/ ~r_last.response.parses)
    => /\ r_last.groups = {}
       /\ r_exc = None
       /\ Len(r_last.api_log) = 1
       /\ r_last.api_log[1].level \in {"error", "exception"}
       /\ \E i \in 1..Len(r_log) : r_log[i] = r_last.api_log[1]

\* C12, its case: cloud_services got a response of status 200 whose body,
\* with a named element in it, is no XML
C12_Witness ==
    /\ r_last.method = "cloud_services"
    /\ r_last.response.status_code = HTTP_OK
    /\ ~r_last.response.parses
    /\ \E i \in 1..Len(r_last.response.groups) : r_last.response.groups[i] # None
    /\ r_last.groups = {}
    /\ Last(r_log).level = "exception"

-----------------------------------------------------------------------------
(* BaseCloudProvider.run_script: the claims *)

\* C13: remote command execution never raises. Every call of _execute_remote
\* has returned a pair: (stdout, stderr) when the command was executed, and an
\* empty output slot with the failure in the error slot when it was not; and
\* run_script, which has to look at the error slot before it uses the output,
\* has not raised by using the empty output of a failed call.
C13_ExecuteNeverRaises ==
    /\ \A i \in 1..Len(s_results) :
          LET r == s_results[i]
          IN  IF r.outcome.raised
              THEN /\ r.pair[1].kind = "None"
                   /\ r.pair[2].kind = "exception"
              ELSE r.pair = <<Str(r.outcome.stdout), Str(r.outcome.stderr)>>
    /\ s_exc # "AttributeError"

\* the place of a remote step in the order of run_script
StepRank(command) ==
    CASE command = "echo $HOME" -> 1
      [] command = "put" -> 2
      [] command = "chmod" -> 3
      [] command = "screen" -> 4

\* the remote steps that were carried out on the frontend node, in order
StepsDone == [i \in 1..Len(s_frontend) |-> s_frontend[i].command]

\* C26: run_script asks for the home directory, uploads the script, makes it
\* executable, starts it in a screen session and closes the connection, in
\* this order; the screen session is started only after the upload and the
\* chmod were carried out; and when run_script has returned or raised, the
\* connection to the frontend node is closed.
C26_ScriptOrder ==
    /\ \A i, j \in 1..Len(StepsDone) :
          i < j => StepRank(StepsDone[i]) < StepRank(StepsDone[j])
    /\ (\E i \in 1..Len(StepsDone) : StepsDone[i] = "screen")
          => /\ \E i \in 1..Len(StepsDone) : StepsDone[i] = "put"
             /\ \E i \in 1..Len(StepsDone) : StepsDone[i] = "chmod"
    /\ s_pc \in {"done", "raised"} => ~s_client.open

-----------------------------------------------------------------------------
(* AzureProvider.upload_biodata: the claims *)

\* C27: upload_biodata uploads the archive at most once in a call, and only
\* after the storage manager has answered that the blob does not exist; when
\* the blob exists nothing is uploaded; and when the call has returned or
\* raised, the archive that compress wrote for it is no longer on the disk.
C27_UploadOnce ==
    /\ Len(b_uploads) <= 1
    /\ b_uploads # <<>> => (b_exists.asked /\ ~b_exists.answer)
    /\ (b_exists.asked /\ b_exists.answer) => b_uploads = <<>>
    /\ (b_pc \in {"returned", "raised"} /\ b_archive.bound)
          => b_archive.path \notin b_disk

\* C27, its case: the call has raised after an upload that failed, and the
\* archive is gone while the other file of the disk is still there
C27_Witness ==
    /\ b_pc = "raised"
    /\ Len(b_uploads) = 1
    /\ ~b_uploads[1].done
    /\ b_archive.bound
    /\ b_disk = {"notes.txt"}

-----------------------------------------------------------------------------
(* DataDirectory: the claims *)

\* the directory the command is asked to set up: datadir, or else --path,
\* made absolute
Target == DataDirectory_path(d_args, d_cwd).parts

\* C28, first part: nothing is removed unless --force was given, and without
\* --force a target that exists makes prologue fail with BCBioException and
\* leaves the file system as it was
C28_NoForceNoDelete ==
    /\ d_removed # <<>> => d_args.force
    /\ ~d_args.force => d_fs0 \subseteq d_fs
    /\ (~d_args.force /\ Target \in d_fs0 /\ d_pc # "prologue")
          => (d_pc = "failed" /\ d_exc = "BCBioException" /\ d_fs = d_fs0)

\* C28, second part: with --force a target that exists is removed and made
\* again, empty
C28_ForceRecreates ==
    (d_args.force /\ Target \in d_fs0 /\ d_pc = "done")
        => /\ d_removed = <<Target>>
           /\ Target \in d_fs
           /\ \A directory \in d_fs :
                 within(Target, directory) => directory = Target

\* C28, third part: the directory work makes is the target, with --force
\* and without
C28_SamePath ==
    d_pc = "done" => d_created = <<Target>>

\* C28: the datadir command never deletes a directory unless --force was
\* given: without --force a target that exists makes prologue fail with
\* BCBioException and work removes nothing; with --force a target that
\* exists is removed and made again, empty; and the path work makes is the
\* same absolute path, from datadir or --path, with --force and without.
C28_Datadir ==
    /\ C28_NoForceNoDelete
    /\ C28_ForceRecreates
    /\ C28_SamePath

-----------------------------------------------------------------------------
(* Pack._remove_empty: the claims *)

RECURSIVE Clean(_)
\* no list of the value holds None, no dict of it has a None value, and no
\* dict of it is empty, at any depth
Clean(v) ==
    /\ \A i \in DOMAIN v.items :
          v.items[i].kind # "None" /\ Clean(v.items[i])
    /\ v.kind = "dict" => v.entries # <<>>
    /\ \A i \in DOMAIN v.entries :
          v.entries[i].item.kind # "None" /\ Clean(v.entries[i].item)

RECURSIVE Sum(_)
Sum(counts) ==
    IF counts = <<>> THEN 0 ELSE Head(counts) + Sum(Tail(counts))

RECURSIVE Occurrences(_, _)
\* how many times the scalar occurs in the value
Occurrences(scalar, v) ==
    IF v.kind = "scalar" THEN (IF v.scalar = scalar THEN 1 ELSE 0)
    ELSE Sum([i \in DOMAIN v.items |-> Occurrences(scalar, v.items[i])])
         + Sum([i \in DOMAIN v.entries |->
                   Occurrences(scalar, v.entries[i].item)])

\* C29: in what _remove_empty returns no list holds None, no dict has a None
\* value and no dict is empty, at any depth; a scalar that is not None is
\* returned as it is, and the scalars inside the argument are all in the
\* result; and _remove_empty applied to its own result returns that result.
C29_RemoveEmpty ==
    k_pc \in {"returned", "again"}
        => /\ Clean(k_output)
           /\ k_argument.kind = "scalar" => k_output = k_argument
           /\ \A scalar \in {0, 1} :
                 Occurrences(scalar, k_output) = Occurrences(scalar, k_argument)
           /\ k_pc = "again" => k_again = k_output

\* C29, its case: a dict whose only entry is a dict left without entries is
\* removed from the list that holds it, the false scalar beside it stays,
\* and the second call has returned
C29_Witness ==
    /\ k_pc = "again"
    /\ k_argument =
         List(<<Dict(<<[key |-> "a",
                        item |-> Dict(<<[key |-> "a", item |-> PyNone]>>)]>>),
                Scalar(0)>>)
    /\ k_output = List(<<Scalar(0)>>)

-----------------------------------------------------------------------------
(* Pack._map_directories: the claims *)

\* the directory is the base or a descendant of it
Under(base, directory) ==
    /\ ~base.none
    /\ base.value # <<>>
    /\ \/ directory = base.value
       \/ startswith(directory, base.value \o <<sep>>)

\* the directories that are under neither base, in sorted order
Externals ==
    LET all == sorted(m_directories)
        IsExternal(directory) ==
            ~Under(m_work_dir, directory) /\ ~Under(m_biodata_dir, directory)
    IN  SelectSeq(all, IsExternal)

\* C30, in part: the output has one entry for every directory of the file
\* names and for nothing else; a directory under the work directory is in
\* the run container, another one under the biodata directory is in the
\* biodata container; and no two directories have the same externalmap
\* folder
C30_DescendantsMapped ==
    m_pc = "returned"
        => /\ DOMAIN m_output = m_directories
           /\ \A directory \in m_directories :
                 /\ Under(m_work_dir, directory)
                       => m_output[directory].container = Containers_run
                 /\ (~Under(m_work_dir, directory)
                        /\ Under(m_biodata_dir, directory))
                       => m_output[directory].container = Containers_biodata
           /\ \A a, b \in m_directories :
                 (a # b /\ m_output[a].folder = m_output[b].folder)
                    => ~startswith(m_output[a].folder, <<"externalmap">>)

\* C30: _map_directories maps every distinct directory of the file names to
\* exactly one entry: a directory under the work directory goes to the run
\* container, otherwise one under the biodata directory goes to the biodata
\* container, otherwise it goes to the run container with the folder
\* externalmap/<n>, n counting from 0 in sorted order; and a directory is
\* under the work (or biodata) directory only if it is that directory or a
\* descendant of it.
C30_MapDirectories ==
    m_pc = "returned"
        => /\ DOMAIN m_output = m_directories
           /\ \A directory \in m_directories :
                 IF Under(m_work_dir, directory)
                 THEN m_output[directory].container = Containers_run
                 ELSE IF Under(m_biodata_dir, directory)
                 THEN m_output[directory].container = Containers_biodata
                 ELSE \E n \in DOMAIN Externals :
                        /\ Externals[n] = directory
                        /\ m_output[directory] =
                              [container |-> Containers_run,
                               folder |-> externalmap(n - 1)]

=============================================================================
